---- MODULE Spec2Model ----
(***************************************************************************)
(* Model of NameChangerMP4.py: the naming-inference helpers, the episode   *)
(* set validator build_and_verify_episodes and the App handlers            *)
(* choose_folder / build_preview / rename_files acting on a file system.   *)
(*                                                                         *)
(* A string is a sequence of one-character strings.  A path is a sequence  *)
(* of path components (strings); os.path.join(folder, name) appends one    *)
(* component, os.path.basename is the last component.                      *)
(***************************************************************************)
EXTENDS Integers, Sequences, FiniteSets, TLC

(***************************************************************************)
(* Characters and character classes of Python's re (str patterns).         *)
(***************************************************************************)
Digits == <<"0", "1", "2", "3", "4", "5", "6", "7", "8", "9">>

UpperLetters ==
    <<"A", "B", "C", "D", "E", "F", "G", "H", "I", "J", "K", "L", "M",
      "N", "O", "P", "Q", "R", "S", "T", "U", "V", "W", "X", "Y", "Z", "É">>

LowerLetters ==
    <<"a", "b", "c", "d", "e", "f", "g", "h", "i", "j", "k", "l", "m",
      "n", "o", "p", "q", "r", "s", "t", "u", "v", "w", "x", "y", "z", "é">>

Range(f) == {f[i] : i \in DOMAIN f}

DigitCh == Range(Digits)
LetterCh == Range(UpperLetters) \cup Range(LowerLetters)
SpaceCh == {" ", "\t"}
PunctCh == {".", "_", "-", "(", ")"}
Alphabet == DigitCh \cup LetterCh \cup SpaceCh \cup PunctCh

\* the letters A-Z and a-z
AsciiLetterCh == Range(SubSeq(UpperLetters, 1, 26)) \cup Range(SubSeq(LowerLetters, 1, 26))

\* \w of a str pattern: Unicode letters, digits and the underscore
WordCh == LetterCh \cup DigitCh \cup {"_"}
\* [ ._-]
SepCh == {" ", ".", "_", "-"}
\* [.\s_-]
SepSpCh == SpaceCh \cup {".", "_", "-"}

\* str.lower() on one character
LowerCh(c) ==
    IF \E i \in DOMAIN UpperLetters : UpperLetters[i] = c
    THEN LowerLetters[CHOOSE i \in DOMAIN UpperLetters : UpperLetters[i] = c]
    ELSE c

Lower(s) == [i \in DOMAIN s |-> LowerCh(s[i])]

\* int() of a run of ASCII digits
DigitVal(c) == (CHOOSE i \in DOMAIN Digits : Digits[i] = c) - 1

RECURSIVE ParseInt(_)
ParseInt(s) ==
    IF s = <<>> THEN 0
    ELSE 10 * ParseInt(SubSeq(s, 1, Len(s) - 1)) + DigitVal(s[Len(s)])

\* str(n) for n >= 0
RECURSIVE Dec(_)
Dec(n) ==
    IF n < 10 THEN <<Digits[n + 1]>>
    ELSE Dec(n \div 10) \o <<Digits[(n % 10) + 1]>>

\* two digits only: the hundreds are dropped
Pad2Truncated(n) ==
    IF n % 100 < 10 THEN <<"0">> \o Dec(n % 100) ELSE Dec(n % 100)

\* f"{n:02d}" for n >= 0
Pad2(n) == IF n < 10 THEN <<"0">> \o Dec(n) ELSE Dec(n)

Max(a, b) == IF a >= b THEN a ELSE b

(***************************************************************************)
(* A backtracking matcher for the regular expressions of the source.  A    *)
(* pattern is a sequence of elements:                                      *)
(*   Cls(cs, lo, hi, g)  a character class cs, greedy, lo..hi times,       *)
(*                       captured as group g (0: not captured);            *)
(*   Wb                  \b;   End  $.                                     *)
(* Alternatives are tried in Python's order: longest repetition first.     *)
(***************************************************************************)
Cls(cs, lo, hi, g) == [k |-> "cls", cs |-> cs, lo |-> lo, hi |-> hi, g |-> g]
Star(cs) == [k |-> "cls", cs |-> cs, lo |-> 0, hi |-> -1, g |-> 0]
Wb == [k |-> "wb"]
End == [k |-> "end"]
One(cs) == Cls(cs, 1, 1, 0)

NoMatch == [ok |-> FALSE]

IsWordAt(s, i) == i >= 1 /\ i <= Len(s) /\ s[i] \in WordCh

\* \b at the gap before position pos
AtBoundary(s, pos) == IsWordAt(s, pos - 1) # IsWordAt(s, pos)

\* number of consecutive characters of cs from pos on, at most hi (hi < 0: no limit)
RECURSIVE RunLen(_, _, _, _)
RunLen(s, cs, pos, hi) ==
    IF hi = 0 \/ pos > Len(s) \/ s[pos] \notin cs THEN 0
    ELSE 1 + RunLen(s, cs, pos + 1, hi - 1)

RECURSIVE MatchFrom(_, _, _, _, _)
RECURSIVE TryCount(_, _, _, _, _, _)
MatchFrom(s, re, j, pos, caps) ==
    IF j > Len(re) THEN [ok |-> TRUE, pos |-> pos, caps |-> caps]
    ELSE LET e == re[j] IN
         CASE e.k = "wb" ->
                IF AtBoundary(s, pos) THEN MatchFrom(s, re, j + 1, pos, caps) ELSE NoMatch
           [] e.k = "end" ->
                IF pos = Len(s) + 1 THEN MatchFrom(s, re, j + 1, pos, caps) ELSE NoMatch
           [] e.k = "cls" ->
                TryCount(s, re, j, pos, caps, RunLen(s, e.cs, pos, e.hi))

TryCount(s, re, j, pos, caps, c) ==
    LET e == re[j] IN
    IF c < e.lo THEN NoMatch
    ELSE LET caps2 == IF e.g = 0 THEN caps
                      ELSE [caps EXCEPT ![e.g] = SubSeq(s, pos, pos + c - 1)]
             r == MatchFrom(s, re, j + 1, pos + c, caps2)
         IN IF r.ok THEN r ELSE TryCount(s, re, j, pos, caps, c - 1)

NoCaps == <<<<>>, <<>>>>

\* re.match(re, s): a match starting at the first character
ReMatch(s, re) == MatchFrom(s, re, 1, 1, NoCaps)

\* re.search from position `from`: the leftmost match, with its start
RECURSIVE SearchFrom(_, _, _)
SearchFrom(s, re, from) ==
    IF from > Len(s) + 1 THEN NoMatch
    ELSE LET r == MatchFrom(s, re, 1, from, NoCaps) IN
         IF r.ok THEN [ok |-> TRUE, start |-> from, pos |-> r.pos, caps |-> r.caps]
         ELSE SearchFrom(s, re, from + 1)

ReSearch(s, re) == SearchFrom(s, re, 1)

\* re.findall for a pattern that is one captured group and never matches empty
RECURSIVE FindAllFrom(_, _, _)
FindAllFrom(s, re, from) ==
    LET r == SearchFrom(s, re, from) IN
    IF ~r.ok THEN <<>>
    ELSE <<r.caps[1]>> \o FindAllFrom(s, re, r.pos)

ReFindAll(s, re) == FindAllFrom(s, re, 1)

\* re.sub(re, repl, s) for a pattern that never matches empty
RECURSIVE SubFrom(_, _, _, _)
SubFrom(s, re, repl, from) ==
    LET r == SearchFrom(s, re, from) IN
    IF ~r.ok THEN SubSeq(s, from, Len(s))
    ELSE SubSeq(s, from, r.start - 1) \o repl \o SubFrom(s, re, repl, r.pos)

ReSub(s, re, repl) == SubFrom(s, re, repl, 1)

\* str.strip(chars)
RECURSIVE LStrip(_, _)
LStrip(s, cs) ==
    IF s # <<>> /\ s[1] \in cs THEN LStrip(SubSeq(s, 2, Len(s)), cs) ELSE s

RECURSIVE RStrip(_, _)
RStrip(s, cs) ==
    IF s # <<>> /\ s[Len(s)] \in cs THEN RStrip(SubSeq(s, 1, Len(s) - 1), cs) ELSE s

Strip(s, cs) == RStrip(LStrip(s, cs), cs)

(***************************************************************************)
(* os.path on paths that are sequences of components.                      *)
(***************************************************************************)
basename(p) == IF p = <<>> THEN <<>> ELSE p[Len(p)]
dirname(p) == IF p = <<>> THEN <<>> ELSE SubSeq(p, 1, Len(p) - 1)
join(folder, name) == Append(folder, name)

\* index of the last "." of a name, 0 if none
RECURSIVE LastDot(_, _)
LastDot(s, i) == IF i = 0 THEN 0 ELSE IF s[i] = "." THEN i ELSE LastDot(s, i - 1)

\* os.path.splitext on a file name: leading dots belong to the root
splitext(name) ==
    LET k == LastDot(name, Len(name))
        lead == Len(name) - Len(LStrip(name, {"."}))
    IN IF k > lead THEN <<SubSeq(name, 1, k - 1), SubSeq(name, k, Len(name))>>
       ELSE <<name, <<>>>>

(***************************************************************************)
(* Python's None and optional values: None is the empty sequence and a     *)
(* present value v is <<v>>.                                               *)
(***************************************************************************)
None == <<>>
Some(v) == <<v>>
IsNone(o) == o = <<>>
Val(o) == o[1]

(***************************************************************************)
(* Naming inference                                                        *)
(***************************************************************************)
VIDEO_EXTS ==
    { <<".", "m", "p", "4">>, <<".", "m", "k", "v">>, <<".", "a", "v", "i">>,
      <<".", "m", "o", "v">>, <<".", "w", "m", "v">>, <<".", "f", "l", "v">>,
      <<".", "w", "e", "b", "m">>, <<".", "m", "4", "v">> }

DOT == <<".">>
DefaultExt == <<".", "m", "p", "4">>

\* (?i)season  /  [sS]eason
SeasonCI ==
    <<One({"s", "S"}), One({"e", "E"}), One({"a", "A"}), One({"s", "S"}),
      One({"o", "O"}), One({"n", "N"})>>
SeasonLit ==
    <<One({"s", "S"}), One({"e"}), One({"a"}), One({"s"}), One({"o"}), One({"n"})>>

\* normalize_show_name without the step that collapses repeated dots
NormalizeNoCollapse(raw0) ==
    IF Strip(raw0, SpaceCh) = <<>> THEN <<>>
    ELSE Strip(ReSub(ReSub(Strip(raw0, SpaceCh), <<Cls(SpaceCh \cup {"_"}, 1, -1, 0)>>, DOT),
                     <<Cls(Alphabet \ (WordCh \cup {"."}), 1, -1, 0)>>, DOT),
               {"."})

\* normalize_show_name with \w taken as [A-Za-z0-9_]
NormalizeAscii(raw0) ==
    IF Strip(raw0, SpaceCh) = <<>> THEN <<>>
    ELSE Strip(ReSub(ReSub(ReSub(Strip(raw0, SpaceCh),
                                 <<Cls(SpaceCh \cup {"_"}, 1, -1, 0)>>, DOT),
                           <<Cls(Alphabet \ (AsciiLetterCh \cup DigitCh \cup {"_", "."}), 1, -1, 0)>>,
                           DOT),
                     <<Cls({"."}, 1, -1, 0)>>, DOT),
               {"."})

\* normalize_show_name with the dots collapsed before the other characters
\* are replaced
NormalizeCollapseFirst(raw0) ==
    IF Strip(raw0, SpaceCh) = <<>> THEN <<>>
    ELSE Strip(ReSub(ReSub(ReSub(Strip(raw0, SpaceCh),
                                 <<Cls(SpaceCh \cup {"_"}, 1, -1, 0)>>, DOT),
                           <<Cls({"."}, 1, -1, 0)>>, DOT),
                     <<Cls(Alphabet \ (WordCh \cup {"."}), 1, -1, 0)>>, DOT),
               {"."})

normalize_show_name(raw0) ==
    LET raw == Strip(raw0, SpaceCh) IN
    IF raw = <<>> THEN <<>>
    ELSE LET n1 == ReSub(raw, <<Cls(SpaceCh \cup {"_"}, 1, -1, 0)>>, DOT)
             n2 == ReSub(n1, <<Cls(Alphabet \ (WordCh \cup {"."}), 1, -1, 0)>>, DOT)
             n3 == ReSub(n2, <<Cls({"."}, 1, -1, 0)>>, DOT)
         IN Strip(n3, {"."})

\* guess_show_name with the markers removed wherever they stand in the name
GuessShowNameUnanchored(folder_path) ==
    LET folder_name == basename(folder_path)
        parent_name == basename(dirname(folder_path))
        tmp1 == ReSub(folder_name,
                      <<Star(SepSpCh)>> \o SeasonCI
                          \o <<Star(SepSpCh), Cls(DigitCh, 1, -1, 0)>>,
                      <<>>)
        tmp2 == ReSub(tmp1,
                      <<Star(SepSpCh), One({"s", "S"}), Cls(DigitCh, 1, 2, 0)>>,
                      <<>>)
        candidate == Strip(tmp2, {" ", ".", "-", "_"})
        base == IF candidate # <<>> /\ Lower(candidate) # <<"s", "e", "a", "s", "o", "n">>
                THEN candidate ELSE parent_name
    IN normalize_show_name(base)

guess_show_name(folder_path) ==
    LET folder_name == basename(folder_path)
        parent_name == basename(dirname(folder_path))
        tmp1 == ReSub(folder_name,
                      <<Star(SepSpCh)>> \o SeasonCI
                          \o <<Star(SepSpCh), Cls(DigitCh, 1, -1, 0), End>>,
                      <<>>)
        tmp2 == ReSub(tmp1,
                      <<Star(SepSpCh), One({"s", "S"}), Cls(DigitCh, 1, 2, 0), End>>,
                      <<>>)
        candidate == Strip(tmp2, {" ", ".", "-", "_"})
        base == IF candidate # <<>> /\ Lower(candidate) # <<"s", "e", "a", "s", "o", "n">>
                THEN candidate ELSE parent_name
    IN normalize_show_name(base)

\* extract_season_number_from_folder with the S + digits rule tried first
ExtractSeasonShortMarkerFirst(folder_path) ==
    LET name == basename(folder_path)
        m1 == ReSearch(name, SeasonLit \o <<Star(Alphabet \ DigitCh), Cls(DigitCh, 1, -1, 1)>>)
        m2 == ReSearch(name, <<One({"s", "S"}), Cls(DigitCh, 1, 2, 1)>>)
        nums == ReFindAll(name, <<Cls(DigitCh, 1, -1, 1)>>)
    IN IF m2.ok THEN Max(1, ParseInt(m2.caps[1]))
       ELSE IF m1.ok THEN Max(1, ParseInt(m1.caps[1]))
       ELSE IF nums # <<>> THEN Max(1, ParseInt(nums[Len(nums)]))
       ELSE 1

extract_season_number_from_folder(folder_path) ==
    LET name == basename(folder_path)
        m1 == ReSearch(name, SeasonLit \o <<Star(Alphabet \ DigitCh), Cls(DigitCh, 1, -1, 1)>>)
        m2 == ReSearch(name, <<One({"s", "S"}), Cls(DigitCh, 1, 2, 1)>>)
        nums == ReFindAll(name, <<Cls(DigitCh, 1, -1, 1)>>)
    IN IF m1.ok THEN Max(1, ParseInt(m1.caps[1]))
       ELSE IF m2.ok THEN Max(1, ParseInt(m2.caps[1]))
       ELSE IF nums # <<>> THEN Max(1, ParseInt(nums[Len(nums)]))
       ELSE 1

\* [sS](\d{1,2})[ ._-]*[eE](\d{1,2})
PatSxxEyy ==
    <<One({"s", "S"}), Cls(DigitCh, 1, 2, 1), Star(SepCh), One({"e", "E"}), Cls(DigitCh, 1, 2, 2)>>

\* extract_episode_number with pattern 4 (leading digits) tried before pattern 3
ExtractEpisodeLeadingFirst(filename) ==
    LET base == splitext(basename(filename))[1]
        m1 == ReSearch(base, PatSxxEyy)
        m2 == ReSearch(base, <<Wb, Cls(DigitCh, 1, 2, 1), One({"x", "X"}), Cls(DigitCh, 1, 2, 2), Wb>>)
        m3 == ReSearch(base, <<One({"e", "E"}), Cls({"p", "P"}, 0, 1, 0), Cls(SepCh, 0, 1, 0),
                               Cls(DigitCh, 1, 2, 1), Wb>>)
        m4 == ReMatch(base, <<Star(SpaceCh), Cls(DigitCh, 1, -1, 1)>>)
        nums == ReFindAll(base, <<Cls(DigitCh, 1, 2, 1)>>)
    IN IF m1.ok THEN Some(ParseInt(m1.caps[2]))
       ELSE IF m2.ok THEN Some(ParseInt(m2.caps[2]))
       ELSE IF m4.ok THEN Some(ParseInt(m4.caps[1]))
       ELSE IF m3.ok THEN Some(ParseInt(m3.caps[1]))
       ELSE IF nums # <<>> THEN Some(ParseInt(nums[Len(nums)]))
       ELSE None

\* extract_episode_number searching the file name with its extension
ExtractEpisodeWithExtension(filename) ==
    LET base == basename(filename)
        m1 == ReSearch(base, PatSxxEyy)
        m2 == ReSearch(base, <<Wb, Cls(DigitCh, 1, 2, 1), One({"x", "X"}), Cls(DigitCh, 1, 2, 2), Wb>>)
        m3 == ReSearch(base, <<One({"e", "E"}), Cls({"p", "P"}, 0, 1, 0), Cls(SepCh, 0, 1, 0),
                               Cls(DigitCh, 1, 2, 1), Wb>>)
        m4 == ReMatch(base, <<Star(SpaceCh), Cls(DigitCh, 1, -1, 1)>>)
        nums == ReFindAll(base, <<Cls(DigitCh, 1, 2, 1)>>)
    IN IF m1.ok THEN Some(ParseInt(m1.caps[2]))
       ELSE IF m2.ok THEN Some(ParseInt(m2.caps[2]))
       ELSE IF m3.ok THEN Some(ParseInt(m3.caps[1]))
       ELSE IF m4.ok THEN Some(ParseInt(m4.caps[1]))
       ELSE IF nums # <<>> THEN Some(ParseInt(nums[Len(nums)]))
       ELSE None

\* the episode number, or None
extract_episode_number(filename) ==
    LET base == splitext(basename(filename))[1]
        m1 == ReSearch(base, PatSxxEyy)
        m2 == ReSearch(base, <<Wb, Cls(DigitCh, 1, 2, 1), One({"x", "X"}), Cls(DigitCh, 1, 2, 2), Wb>>)
        m3 == ReSearch(base, <<One({"e", "E"}), Cls({"p", "P"}, 0, 1, 0), Cls(SepCh, 0, 1, 0),
                               Cls(DigitCh, 1, 2, 1), Wb>>)
        m4 == ReMatch(base, <<Star(SpaceCh), Cls(DigitCh, 1, -1, 1)>>)
        nums == ReFindAll(base, <<Cls(DigitCh, 1, 2, 1)>>)
    IN IF m1.ok THEN Some(ParseInt(m1.caps[2]))
       ELSE IF m2.ok THEN Some(ParseInt(m2.caps[2]))
       ELSE IF m3.ok THEN Some(ParseInt(m3.caps[1]))
       ELSE IF m4.ok THEN Some(ParseInt(m4.caps[1]))
       ELSE IF nums # <<>> THEN Some(ParseInt(nums[Len(nums)]))
       ELSE None

\* the season of the last file with an SxxEyy marker, or None
RECURSIVE GuessSeasonLastMatch(_)
GuessSeasonLastMatch(video_paths) ==
    IF video_paths = <<>> THEN None
    ELSE IF ReSearch(splitext(basename(video_paths[Len(video_paths)]))[1], PatSxxEyy).ok
    THEN Some(Max(1, ParseInt(ReSearch(splitext(basename(video_paths[Len(video_paths)]))[1],
                                       PatSxxEyy).caps[1])))
    ELSE GuessSeasonLastMatch(SubSeq(video_paths, 1, Len(video_paths) - 1))

\* the season of the first file with an SxxEyy marker, or None
RECURSIVE guess_season_from_files(_)
guess_season_from_files(video_paths) ==
    IF video_paths = <<>> THEN None
    ELSE LET base == splitext(basename(video_paths[1]))[1]
             m == ReSearch(base, PatSxxEyy)
         IN IF m.ok THEN Some(Max(1, ParseInt(m.caps[1])))
            ELSE guess_season_from_files(Tail(video_paths))

(***************************************************************************)
(* Episode set validator                                                   *)
(***************************************************************************)
\* sorted(S) for a set of integers
RECURSIVE SortSet(_)
SortSet(S) ==
    IF S = {} THEN <<>>
    ELSE LET m == CHOOSE x \in S : \A y \in S : x <= y
         IN <<m>> \o SortSet(S \ {m})

\* list.count
Count(seq, n) == Cardinality({i \in DOMAIN seq : seq[i] = n})

\* sorted(items, key=lambda t: t[0]): stable, by episode number
RECURSIVE SortItems(_)
SortItems(its) ==
    IF its = <<>> THEN <<>>
    ELSE LET i == CHOOSE i \in DOMAIN its :
                      /\ \A j \in DOMAIN its : its[i][1] <= its[j][1]
                      /\ \A j \in 1..(i - 1) : its[j][1] # its[i][1]
         IN <<its[i]>> \o SortItems(SubSeq(its, 1, i - 1) \o SubSeq(its, i + 1, Len(its)))

\* the error message, by its kind and the names or numbers it lists
Error(kind, names, nums) == [kind |-> kind, names |-> names, nums |-> nums]

\* (sorted_items, error_message); raised names the exception that escapes, if any
Result(raised, its, error) == [raised |-> raised, items |-> its, error |-> error]

\* lines 189-194: one file, as the items it adds and the unparsed names it adds
ItemOf(path, ep) == IF IsNone(ep) THEN <<>> ELSE << <<Val(ep), path>> >>
UnparsedOf(path, ep) == IF IsNone(ep) THEN <<basename(path)>> ELSE <<>>

RECURSIVE ParsedItems(_)
ParsedItems(video_paths) ==
    IF video_paths = <<>> THEN <<>>
    ELSE ItemOf(video_paths[1], extract_episode_number(video_paths[1]))
             \o ParsedItems(Tail(video_paths))

RECURSIVE UnparsedNames(_)
UnparsedNames(video_paths) ==
    IF video_paths = <<>> THEN <<>>
    ELSE UnparsedOf(video_paths[1], extract_episode_number(video_paths[1]))
             \o UnparsedNames(Tail(video_paths))

\* GapCheck with the expected range starting at episode 1
GapCheckFromOne(its, unique_nums, sorted_nums) ==
    IF sorted_nums = <<>> THEN Result("IndexError", None, None)
    ELSE IF (1..sorted_nums[Len(sorted_nums)]) \ unique_nums # {}
    THEN Result("", None,
                Some(Error("MissingEpisodes", <<>>,
                           SortSet((1..sorted_nums[Len(sorted_nums)]) \ unique_nums))))
    ELSE Result("", Some(SortItems(its)), None)

\* GapCheck without the final sort
GapCheckUnsorted(its, unique_nums, sorted_nums) ==
    IF sorted_nums = <<>> THEN Result("IndexError", None, None)
    ELSE IF (sorted_nums[1]..sorted_nums[Len(sorted_nums)]) \ unique_nums # {}
    THEN Result("", None,
                Some(Error("MissingEpisodes", <<>>,
                           SortSet((sorted_nums[1]..sorted_nums[Len(sorted_nums)]) \ unique_nums))))
    ELSE Result("", Some(its), None)

\* lines 213-228: the gap check and the sorted result
GapCheck(its, unique_nums, sorted_nums) ==
    IF sorted_nums = <<>> THEN Result("IndexError", None, None)
    ELSE IF (sorted_nums[1]..sorted_nums[Len(sorted_nums)]) \ unique_nums # {}
    THEN Result("", None,
                Some(Error("MissingEpisodes", <<>>,
                           SortSet((sorted_nums[1]..sorted_nums[Len(sorted_nums)]) \ unique_nums))))
    ELSE Result("", Some(SortItems(its)), None)

\* DuplicateCheck with the gap check done first
DuplicateCheckAfterGap(its, nums, unique_nums) ==
    IF unique_nums # {}
       /\ \E n \in 1..SortSet(unique_nums)[Len(SortSet(unique_nums))] :
             n >= SortSet(unique_nums)[1] /\ n \notin unique_nums
    THEN GapCheck(its, unique_nums, SortSet(unique_nums))
    ELSE IF \E n \in unique_nums : Count(nums, n) > 1
    THEN Result("", None,
                Some(Error("DuplicateEpisodes", <<>>,
                           SortSet({n \in unique_nums : Count(nums, n) > 1}))))
    ELSE GapCheck(its, unique_nums, SortSet(unique_nums))

\* lines 202-211: the duplicate check
DuplicateCheck(its, nums, unique_nums) ==
    IF \E n \in unique_nums : Count(nums, n) > 1
    THEN Result("", None,
                Some(Error("DuplicateEpisodes", <<>>,
                           SortSet({n \in unique_nums : Count(nums, n) > 1}))))
    ELSE GapCheck(its, unique_nums, SortSet(unique_nums))

EpisodesOf(its) == [i \in DOMAIN its |-> its[i][1]]

\* UnparsedCheck that reports only the first unparsed file
UnparsedCheckFirstOnly(its, unparsed, nums) ==
    IF unparsed # <<>>
    THEN Result("", None, Some(Error("UnparsedFiles", <<unparsed[1]>>, <<>>)))
    ELSE DuplicateCheck(its, nums, Range(nums))

\* lines 196-200: the unparsed check
UnparsedCheck(its, unparsed, nums) ==
    IF unparsed # <<>>
    THEN Result("", None, Some(Error("UnparsedFiles", unparsed, <<>>)))
    ELSE DuplicateCheck(its, nums, Range(nums))

Verify(its, unparsed) == UnparsedCheck(its, unparsed, EpisodesOf(its))

build_and_verify_episodes(video_paths) ==
    Verify(ParsedItems(video_paths), UnparsedNames(video_paths))

(***************************************************************************)
(* The file system: a function from the directories that exist to the set *)
(* of names of the regular files in each.                                  *)
(***************************************************************************)
SP == <<"S", "p">>
SouthPark == <<"S", "o", "u", "t", "h", " ", "P", "a", "r", "k">>
DirShow == <<SP>>
DirSeason1 == <<SP, <<"S", "e", "a", "s", "o", "n", " ", "1">> >>
DirS02 == <<SP, <<"S", "0", "2">> >>
\* a directory inside the season folder that carries the name of a video file
DirTaken == Append(DirSeason1,
                   <<"s", "1", "e", "2", ".", "s", "0", "1", ".", "e", "0", "1", "_", "1",
                     ".", "m", "p", "4">>)

\* os.path.isdir
IsDir(fsys, path) == path \in DOMAIN fsys

\* os.path.exists
Exists(fsys, path) ==
    \/ IsDir(fsys, path)
    \/ /\ IsDir(fsys, dirname(path))
       /\ basename(path) \in fsys[dirname(path)]

\* the characters in code point order, as sorted() compares strings
CodeOrder ==
    <<" ", "(", ")", "-", ".">> \o Digits
        \o SubSeq(UpperLetters, 1, 26) \o <<"_">> \o SubSeq(LowerLetters, 1, 26)
        \o <<"É", "é">>

Ord(c) == CHOOSE i \in DOMAIN CodeOrder : CodeOrder[i] = c

RECURSIVE StrLess(_, _)
StrLess(x, y) ==
    IF y = <<>> THEN FALSE
    ELSE IF x = <<>> THEN TRUE
    ELSE IF x[1] = y[1] THEN StrLess(Tail(x), Tail(y))
    ELSE Ord(x[1]) < Ord(y[1])

RECURSIVE SortPaths(_)
SortPaths(S) ==
    IF S = {} THEN <<>>
    ELSE LET m == CHOOSE x \in S : \A y \in S \ {x} : StrLess(basename(x), basename(y))
         IN <<m>> \o SortPaths(S \ {m})

\* lines 388-395: the os.path.isdir entries of folder, sorted
Subfolders(fsys, folder) ==
    SortPaths({d \in DOMAIN fsys : d # <<>> /\ dirname(d) = folder})

\* the orders in which os.listdir may return a set of names
RECURSIVE Perms(_)
Perms(S) ==
    IF S = {} THEN {<<>>}
    ELSE UNION {{<<x>> \o p : p \in Perms(S \ {x})} : x \in S}

\* one listing order for every directory of ds
RECURSIVE ListingsFor(_, _)
ListingsFor(fsys, ds) ==
    IF ds = {} THEN {[x \in {} |-> <<>>]}
    ELSE LET d == CHOOSE d \in ds : TRUE IN
         {[x \in ds |-> IF x = d THEN p ELSE r[x]] :
              p \in Perms(fsys[d]), r \in ListingsFor(fsys, ds \ {d})}

IsVideoName(name) == Lower(splitext(name)[2]) \in VIDEO_EXTS

RECURSIVE VideoPaths(_, _)
VideoPaths(folder, names) ==
    IF names = <<>> THEN <<>>
    ELSE (IF IsVideoName(names[1]) THEN <<join(folder, names[1])>> ELSE <<>>)
             \o VideoPaths(folder, Tail(names))

\* full paths of the video files of folder, in listing order
get_video_files(ls, folder) == VideoPaths(folder, ls[folder])

\* the directories build_preview lists when it scans folder
Scanned(fsys, folder) ==
    IF \E n \in fsys[folder] : IsVideoName(n) THEN {folder}
    ELSE {folder} \cup Range(Subfolders(fsys, folder))

\* os.path.splitext(path)[1].lower() or ".mp4"
ExtOrDefault(e) == IF e = <<>> THEN DefaultExt ELSE e
ExtOf(path) == ExtOrDefault(Lower(splitext(basename(path))[2]))

\* the target name of an episode without its extension, and a suffixed candidate
TvStem(show_name, season_str, ep_num) ==
    IF show_name # <<>>
    THEN show_name \o <<".", "s">> \o season_str \o <<".", "e">> \o Pad2(ep_num)
    ELSE <<"s">> \o season_str \o <<"e">> \o Pad2(ep_num)

Suffixed(stem, suffix, ext) == stem \o <<"_">> \o Dec(suffix) \o ext

(***************************************************************************)
(* The App.  A handler is an operator from the App's fields (a record a)   *)
(* to the fields after it; the labels that only display a field (folder,   *)
(* mode and season labels) are left out.                                   *)
(***************************************************************************)
Status(msg, count, name) == [msg |-> msg, count |-> count, name |-> name]
Box(title, lines, errors) == [title |-> title, lines |-> lines, errors |-> errors]
EmptyBox == Box(<<>>, <<>>, <<>>)
\* an error shown in the preview box, under the season folder it belongs to
BoxError(label, season_no, err) == [label |-> label, season |-> season_no, error |-> err]

\* the text of the title entry, stripped
EntryText(a) == Strip(a.show_entry, SpaceCh)

\* lines 418-420 and 574-576: normalize(entry) or guess_show_name(folder), normalized
TitleOrGuess(t0, folder) ==
    normalize_show_name(IF t0 # <<>> THEN t0 ELSE guess_show_name(folder))
MovieTitle(a) == TitleOrGuess(normalize_show_name(EntryText(a)), Val(a.folder_path))

\* lines 460-461 and 693-694
TvShowName(a) == normalize_show_name(EntryText(a))

\* lines 492-495 and 624-627
RawOrGuess(raw_show, folder) == IF raw_show = <<>> THEN guess_show_name(folder) ELSE raw_show
MultiShowName(a) == normalize_show_name(RawOrGuess(EntryText(a), Val(a.folder_path)))

\* lines 414-444
MoviePreview(a, video_path, title) ==
    [a EXCEPT !.movie_path = Some(video_path),
              !.show_entry = title,
              !.preview_box =
                  Box(title,
                      << <<basename(video_path),
                           IF title # <<>> THEN title \o ExtOf(video_path)
                           ELSE basename(video_path)>> >>,
                      <<>>),
              !.status_label = Status("Movie detected. Review then click Rename.", 0, <<>>),
              !.rename_btn = "normal"]

build_movie_preview(a, video_path) == MoviePreview(a, video_path, MovieTitle(a))

\* PreviewLines showing the extension as the source has it, not lower-cased
PreviewLinesKeepCase(its, show_name, season_str) ==
    [i \in DOMAIN its |->
        <<basename(its[i][2]),
          TvStem(show_name, season_str, its[i][1]) \o splitext(basename(its[i][2]))[2]>>]

\* lines 472-479 and 524-531: the preview lines of a validated item list
PreviewLines(its, show_name, season_str) ==
    [i \in DOMAIN its |->
        <<basename(its[i][2]), TvStem(show_name, season_str, its[i][1]) \o ExtOf(its[i][2])>>]

\* TvPreview whose error branch goes on to enable the Rename button
TvPreviewNoReturn(a, r, show_name) ==
    IF r.raised # "" THEN a
    ELSE IF ~IsNone(r.error)
    THEN [a EXCEPT !.preview_box = Box(<<>>, <<>>, <<BoxError(<<>>, a.season, Val(r.error))>>),
                   !.status_label = Status("ERROR - see preview box.", 0, <<>>),
                   !.items = None,
                   !.rename_btn = "normal"]
    ELSE [a EXCEPT !.items = r.items,
                   !.show_entry = show_name,
                   !.preview_box = Box(show_name,
                                       PreviewLines(Val(r.items), show_name, Pad2(a.season)),
                                       <<>>),
                   !.status_label =
                       Status("TV season detected. Review preview, then click Rename.", 0, <<>>),
                   !.rename_btn = "normal"]

\* lines 446-485
TvPreview(a, r, show_name) ==
    IF r.raised # "" THEN a
    ELSE IF ~IsNone(r.error)
    THEN [a EXCEPT !.preview_box = Box(<<>>, <<>>, <<BoxError(<<>>, a.season, Val(r.error))>>),
                   !.status_label = Status("ERROR - see preview box.", 0, <<>>),
                   !.items = None]
    ELSE [a EXCEPT !.items = r.items,
                   !.show_entry = show_name,
                   !.preview_box = Box(show_name,
                                       PreviewLines(Val(r.items), show_name, Pad2(a.season)),
                                       <<>>),
                   !.status_label =
                       Status("TV season detected. Review preview, then click Rename.", 0, <<>>),
                   !.rename_btn = "normal"]

build_tv_preview(a, videos) == TvPreview(a, build_and_verify_episodes(videos), TvShowName(a))

\* the season of a season folder taken from the folder name alone
SeasonOfFolderOnly(season_folder, season_from_files) ==
    extract_season_number_from_folder(season_folder)

\* lines 508-511: the season of a season folder
SeasonOf(season_folder, season_from_files) ==
    IF ~IsNone(season_from_files) THEN Val(season_from_files)
    ELSE extract_season_number_from_folder(season_folder)

MultiEntries(season_no, its) == [i \in DOMAIN its |-> <<season_no, its[i][1], its[i][2]>>]

\* lines 506-534: one season folder; acc holds the preview lines, the
\* multi_items, the errors and the exception raised, if any
MultiStep(acc, season_folder, season_no, r, show_name) ==
    IF r.raised # "" THEN [acc EXCEPT !.raised = r.raised]
    ELSE IF ~IsNone(r.error)
    THEN [acc EXCEPT !.errors =
             Append(@, BoxError(basename(season_folder), season_no, Val(r.error)))]
    ELSE [acc EXCEPT !.lines = @ \o PreviewLines(Val(r.items), show_name, Pad2(season_no)),
                     !.multi_items = @ \o MultiEntries(season_no, Val(r.items))]

RECURSIVE MultiLoop(_, _, _)
MultiLoop(season_folders, show_name, acc) ==
    IF season_folders = <<>> \/ acc.raised # "" THEN acc
    ELSE MultiLoop(Tail(season_folders), show_name,
                   MultiStep(acc, season_folders[1][1],
                             SeasonOf(season_folders[1][1],
                                      guess_season_from_files(season_folders[1][2])),
                             build_and_verify_episodes(season_folders[1][2]),
                             show_name))

MultiStart == [lines |-> <<>>, multi_items |-> <<>>, errors |-> <<>>, raised |-> ""]

\* the errors branch keeping the items of the seasons that validated
MultiPlanKept(multi_items) == Some(multi_items)

\* line 544: what the errors branch stores as the multi-season plan
MultiPlanOnError(multi_items) == None

\* lines 536-561
MultiFinish(a, show_name, acc) ==
    IF acc.raised # ""
    THEN [a EXCEPT !.show_entry = show_name,
                   !.multi_items = Some(acc.multi_items),
                   !.preview_box = Box(show_name, acc.lines, acc.errors)]
    ELSE IF acc.errors # <<>>
    THEN [a EXCEPT !.show_entry = show_name,
                   !.preview_box = Box(show_name, acc.lines, acc.errors),
                   !.status_label =
                       Status("ERROR - some season folders had problems. Fix them and try again.", 0, <<>>),
                   !.multi_items = MultiPlanOnError(acc.multi_items),
                   !.rename_btn = "disabled"]
    ELSE IF acc.multi_items = <<>>
    THEN [a EXCEPT !.show_entry = show_name,
                   !.multi_items = Some(acc.multi_items),
                   !.preview_box = Box(show_name, acc.lines, acc.errors),
                   !.status_label =
                       Status("No valid episodes found in season subfolders.", 0, <<>>),
                   !.rename_btn = "disabled"]
    ELSE [a EXCEPT !.show_entry = show_name,
                   !.multi_items = Some(acc.multi_items),
                   !.preview_box = Box(show_name, acc.lines, acc.errors),
                   !.status_label =
                       Status("Multi-season TV detected. Review preview, then click Rename.", 0, <<>>),
                   !.rename_btn = "normal"]

\* lines 487-561
MultiPreview(a, season_folders, show_name) ==
    MultiFinish(a, show_name, MultiLoop(season_folders, show_name, MultiStart))

build_multi_tv_preview(a, season_folders) ==
    MultiPreview(a, season_folders, MultiShowName(a))

\* lines 394-398: the subfolders that hold videos, with their videos
SeasonFolderOf(subfolder, vids) ==
    IF vids # <<>> THEN << <<subfolder, vids>> >> ELSE <<>>

RECURSIVE SeasonFolders(_, _)
SeasonFolders(ls, subfolders) ==
    IF subfolders = <<>> THEN <<>>
    ELSE SeasonFolderOf(subfolders[1], get_video_files(ls, subfolders[1]))
             \o SeasonFolders(ls, Tail(subfolders))

\* lines 371-374: the season overridden from the file names
WithSeason(a, season_from_files) ==
    IF ~IsNone(season_from_files) THEN [a EXCEPT !.season = Val(season_from_files)] ELSE a

\* lines 369-385: the folder itself holds videos
PreviewVideos(a, videos) ==
    IF Len(videos) = 1
    THEN build_movie_preview([a EXCEPT !.mode = "movie"], videos[1])
    ELSE build_tv_preview([a EXCEPT !.mode = "tv"], videos)

\* lines 387-412: no videos in the folder itself
PreviewSubfolders(a, season_folders) ==
    IF season_folders = <<>>
    THEN [a EXCEPT !.status_label =
             Status("No video files found in this folder or its season subfolders.", 0, <<>>)]
    ELSE build_multi_tv_preview([a EXCEPT !.mode = "multi"], season_folders)

\* lines 366-412
ScanFolder(a, fsys, ls, folder, videos) ==
    IF videos # <<>>
    THEN PreviewVideos(WithSeason(a, guess_season_from_files(videos)), videos)
    ELSE PreviewSubfolders(a, SeasonFolders(ls, Subfolders(fsys, folder)))

\* lines 355-359
ResetPreview(a) ==
    [a EXCEPT !.preview_box = EmptyBox, !.rename_btn = "disabled",
              !.items = None, !.multi_items = None, !.movie_path = None]

\* lines 354-412 run on the file system fsys; ls gives the order in which
\* os.listdir returns each directory
build_preview(a, fsys, ls) ==
    IF IsNone(a.folder_path)
    THEN [ResetPreview(a) EXCEPT !.status_label = Status("No folder selected.", 0, <<>>)]
    ELSE ScanFolder(ResetPreview(a), fsys, ls, Val(a.folder_path),
                    get_video_files(ls, Val(a.folder_path)))

\* lines 338-352, after the dialog has returned folder
choose_folder(a, folder, fsys, ls) ==
    build_preview([a EXCEPT !.folder_path = Some(folder),
                            !.season = extract_season_number_from_folder(folder),
                            !.show_entry = guess_show_name(folder)],
                  fsys, ls)

(***************************************************************************)
(* rename_files                                                            *)
(***************************************************************************)
\* os.rename(old_path, new_path) within one directory (POSIX: an existing
\* destination file is replaced)
os_rename(fsys, old_path, new_path) ==
    [fsys EXCEPT ![dirname(old_path)] = (@ \ {basename(old_path)}) \cup {basename(new_path)}]

\* no retry loop: the computed target is used whether or not it exists
FreeCandidateNoLoop(fsys, folder, stem, ext, candidate, suffix) == candidate

\* the retry loop with the suffix incremented before it is used
RECURSIVE FreeCandidateOffByOne(_, _, _, _, _, _)
FreeCandidateOffByOne(fsys, folder, stem, ext, candidate, suffix) ==
    IF Exists(fsys, candidate)
    THEN FreeCandidateOffByOne(fsys, folder, stem, ext,
                               join(folder, Suffixed(stem, suffix + 1, ext)), suffix + 1)
    ELSE candidate

\* lines 601-606, 655-664, 718-727: while os.path.exists(candidate): next suffix
RECURSIVE FreeCandidate(_, _, _, _, _, _)
FreeCandidate(fsys, folder, stem, ext, candidate, suffix) ==
    IF Exists(fsys, candidate)
    THEN FreeCandidate(fsys, folder, stem, ext,
                       join(folder, Suffixed(stem, suffix, ext)), suffix + 1)
    ELSE candidate

\* one plan entry as rename_files handled it: the source, the computed target
\* path, the path the file has afterwards, whether os.rename was called, and
\* the file system when the entry was reached
Op(src, target, dst, renamed, fsys) ==
    [src |-> src, target |-> target, dst |-> dst, renamed |-> renamed, fs |-> fsys]

\* no identity check: every entry is renamed
IsIdentityNever(old_path, new_path) == FALSE

\* lines 594, 652, 715: is the entry skipped as an identity rename
IsIdentity(old_path, new_path) == old_path = new_path

\* lines 608, 666-667, 729-730: os.rename(old_path, candidate); renamed_count += 1
DoRename(st, old_path, new_path, candidate) ==
    IF ~Exists(st.fs, old_path)
    THEN [st EXCEPT !.raised = "FileNotFoundError"]
    ELSE [st EXCEPT !.fs = os_rename(st.fs, old_path, candidate),
                    !.renamed_count = @ + 1,
                    !.log = Append(@, Op(old_path, new_path, candidate, TRUE, st.fs))]

\* lines 592-608, 650-667, 713-730: one plan entry
RenameOne(st, old_path, new_path, stem, ext) ==
    IF IsIdentity(old_path, new_path)
    THEN [st EXCEPT !.log = Append(@, Op(old_path, new_path, old_path, FALSE, st.fs))]
    ELSE DoRename(st, old_path, new_path,
                  FreeCandidate(st.fs, dirname(old_path), stem, ext, new_path, 1))

RenameEntry(st, old_path, stem, ext) ==
    RenameOne(st, old_path, join(dirname(old_path), stem \o ext), stem, ext)

\* lines 640-667 and 704-730: the loop over the plan, entries (season, ep, path)
RECURSIVE RenameLoop(_, _, _)
RenameLoop(entries, show_name, st) ==
    IF entries = <<>> \/ st.raised # "" THEN st
    ELSE RenameLoop(Tail(entries), show_name,
                    RenameEntry(st, entries[1][3],
                                TvStem(show_name, Pad2(entries[1][1]), entries[1][2]),
                                ExtOf(entries[1][3])))

RenameStart(fsys) == [fs |-> fsys, renamed_count |-> 0, log |-> <<>>, raised |-> ""]

\* what rename_files does before it refreshes the preview: the fields, the file
\* system, the log of the plan entries handled, the renamed count, whether
\* build_preview follows and the status shown after it
Outcome(a, st, refresh, status) ==
    [a |-> a, fs |-> st.fs, log |-> st.log, renamed_count |-> st.renamed_count,
     raised |-> st.raised, refresh |-> refresh, status |-> status]

NoRename(a, fsys, msg) ==
    Outcome([a EXCEPT !.status_label = Status(msg, 0, <<>>)], RenameStart(fsys), FALSE,
            Status(msg, 0, <<>>))

\* lines 592-616
MovieOutcome(a, st) ==
    IF st.raised # "" THEN Outcome(a, st, FALSE, a.status_label)
    ELSE IF ~st.log[1].renamed
    THEN Outcome([a EXCEPT !.status_label =
                      Status("Movie already named. Nothing to do.", 0, basename(st.log[1].dst))],
                 st, FALSE, a.status_label)
    ELSE Outcome(a, st, TRUE, Status("Movie renamed", 0, basename(st.log[1].dst)))

\* RenameMovie without the test for an empty title
RenameMovieAnyTitle(a, fsys, title) ==
    IF IsNone(a.movie_path) THEN NoRename(a, fsys, "No movie file to rename.")
    ELSE MovieOutcome(a, RenameEntry(RenameStart(fsys), Val(a.movie_path), title,
                                     ExtOf(Val(a.movie_path))))

\* lines 569-616
RenameMovie(a, fsys, title) ==
    IF IsNone(a.movie_path) THEN NoRename(a, fsys, "No movie file to rename.")
    ELSE IF title = <<>> THEN NoRename(a, fsys, "No title set - leaving movie name as-is.")
    ELSE MovieOutcome(a, RenameEntry(RenameStart(fsys), Val(a.movie_path), title,
                                     ExtOf(Val(a.movie_path))))

\* lines 669-682 and 732-742
LoopOutcome(a, show_name, st, msg) ==
    Outcome([a EXCEPT !.show_entry = show_name], st, st.raised = "",
            Status(msg, st.renamed_count, <<>>))

\* lines 619-682
RenameMulti(a, fsys, show_name) ==
    IF IsNone(a.multi_items) \/ Val(a.multi_items) = <<>>
    THEN NoRename(a, fsys, "Nothing to rename.")
    ELSE LoopOutcome(a, show_name, RenameLoop(Val(a.multi_items), show_name, RenameStart(fsys)),
                     "Renamed file(s) across all seasons")

TvEntries(season_no, its) == [i \in DOMAIN its |-> <<season_no, its[i][1], its[i][2]>>]

\* lines 684-742
RenameTv(a, fsys, show_name) ==
    IF IsNone(a.items) \/ Val(a.items) = <<>>
    THEN NoRename(a, fsys, "Nothing to rename.")
    ELSE LoopOutcome(a, show_name,
                     RenameLoop(TvEntries(a.season, Val(a.items)), show_name, RenameStart(fsys)),
                     "Renamed file(s)")

\* lines 563-742, up to the refresh of the preview
rename_files(a, fsys) ==
    IF IsNone(a.folder_path) THEN NoRename(a, fsys, "No folder selected.")
    ELSE IF a.mode = "movie" THEN RenameMovie(a, fsys, MovieTitle(a))
    ELSE IF a.mode = "multi" THEN RenameMulti(a, fsys, MultiShowName(a))
    ELSE RenameTv(a, fsys, TvShowName(a))

\* lines 610-615, 670-681, 733-742: the refresh, the button and the status
AfterRefresh(a, status) == [a EXCEPT !.rename_btn = "disabled", !.status_label = status]

(***************************************************************************)
(* State                                                                   *)
(***************************************************************************)
VARIABLES
    fs,            \* the file system: directory -> names of its files
    folder_path,   \* App fields (None or a value, see Some)
    items,
    multi_items,
    season,
    mode,
    movie_path,
    show_entry,    \* the text of the title entry
    rename_btn,    \* the state of the Rename button
    status_label,
    preview_box,
    last_rename,   \* history: None, or the last handler run was rename_files:
                   \* the fields and file system it started from and its log
    vfiles,        \* the validator on its own: its input and its result
    vresult,
    vseason,       \* the result of guess_season_from_files on the same input
    kind,          \* the inference helpers on their own: what the input is,
    arg,           \* the input (a path), the number of pieces it was typed in,
    ntok,
    call           \* and the latest call made on it with its result

appvars == <<folder_path, items, multi_items, season, mode, movie_path, show_entry,
             rename_btn, status_label, preview_box>>
vvars == <<vfiles, vresult, vseason>>
ivars == <<kind, arg, ntok, call>>
vars == <<fs, appvars, last_rename, vvars, ivars>>

Self ==
    [folder_path |-> folder_path, items |-> items, multi_items |-> multi_items,
     season |-> season, mode |-> mode, movie_path |-> movie_path,
     show_entry |-> show_entry, rename_btn |-> rename_btn,
     status_label |-> status_label, preview_box |-> preview_box]

Assign(a) ==
    /\ folder_path' = a.folder_path
    /\ items' = a.items
    /\ multi_items' = a.multi_items
    /\ season' = a.season
    /\ mode' = a.mode
    /\ movie_path' = a.movie_path
    /\ show_entry' = a.show_entry
    /\ rename_btn' = a.rename_btn
    /\ status_label' = a.status_label
    /\ preview_box' = a.preview_box

(***************************************************************************)
(* The file names and folder contents the model starts from                *)
(***************************************************************************)
N_S01E01 == <<"S", "0", "1", "E", "0", "1", ".", "m", "p", "4">>
N_1x02 == <<"1", "x", "0", "2", ".", "M", "K", "V">>
N_e2 == <<"e", "2", ".", "m", "p", "4">>
N_e1 == <<"e", "1", ".", "m", "p", "4">>
N_01 == <<"0", "1", ".", "m", "p", "4">>
N_03 == <<"0", "3", ".", "m", "p", "4">>
N_x == <<"x", ".", "m", "p", "4">>
N_y == <<"y", ".", "m", "k", "v">>
N_txt == <<"a", ".", "t", "x", "t">>
N_S02E01 == <<"S", "0", "2", "E", "0", "1", ".", "m", "p", "4">>
N_S02E02 == <<"S", "0", "2", "E", "0", "2", ".", "m", "p", "4">>
N_s2e1 == <<"s", "2", "e", "1", ".", "m", "k", "v">>
N_film == <<"f", "i", "l", "m", ".", "m", "p", "4">>
N_taken == <<"s", "1", "e", "2", ".", "s", "0", "1", ".", "e", "0", "1", ".", "m", "p", "4">>

Layout(show, season1, s02) ==
    [d \in {DirShow, DirSeason1, DirS02} |->
        IF d = DirShow THEN show
        ELSE IF d = DirSeason1 THEN season1
        ELSE s02]

\* fsys with one more, empty, directory
WithDir(fsys, dir) == [d \in DOMAIN fsys \cup {dir} |-> IF d = dir THEN {} ELSE fsys[d]]

\* the docstring's South Park/Season 01 with three episodes
LayoutSouthPark ==
    [d \in {<<SouthPark>>, <<SouthPark, <<"S", "e", "a", "s", "o", "n", " ", "0", "1">>>>} |->
        IF d = <<SouthPark>> THEN {}
        ELSE {<<"S", "0", "1", "E", "0", "1", ".", "m", "p", "4">>,
              <<"S", "0", "1", "E", "0", "2", ".", "m", "p", "4">>,
              <<"S", "0", "1", "E", "0", "3", ".", "m", "p", "4">>}]

\* a season and episodes of three digits
LayoutSeason100 ==
    [d \in {DirShow, <<SP, <<"S", "e", "a", "s", "o", "n", " ", "1", "0", "0">>>>} |->
        IF d = DirShow THEN {}
        ELSE {<<"1", "0", "0", ".", "m", "p", "4">>, <<"1", "0", "1", ".", "M", "P", "4">>}]

\* a movie in a folder S01 that has no named parent: no title can be inferred
LayoutUntitledMovie == [d \in {<<<<"S", "0", "1">>>>} |-> {<<"F", "i", "l", "m", ".", "M", "K", "V">>}]

Layouts ==
    { Layout({N_txt}, {N_S01E01, N_1x02}, {}),           \* a complete season
      Layout({}, {N_S01E01, N_e1}, {}),                  \* episode 1 twice
      Layout({}, {N_01, N_03}, {}),                      \* episode 2 missing
      Layout({}, {N_x, N_y}, {}),                        \* names without a number
      Layout({}, {N_S02E01, N_S02E02}, {N_e1, N_e2}),    \* two seasons
      Layout({}, {N_e1, N_e2}, {N_S02E01, N_s2e1}),      \* second season: episode 1 twice
      Layout({}, {N_e1, N_e2}, {N_S01E01, N_1x02}),      \* two folders of season 1
      Layout({}, {N_01, N_taken}, {}),                   \* a target name is taken
      WithDir(Layout({}, {N_01, N_taken}, {}), DirTaken), \* and so is its first suffix
      Layout({}, {N_film}, {}),                          \* a movie
      LayoutSouthPark,
      LayoutSeason100,
      Layout({}, {<<"1", "0", "0", ".", "m", "p", "4">>,
                  <<"1", "0", "1", ".", "m", "p", "4">>}, {}),      \* episodes 100 and 101 of season 1
      LayoutUntitledMovie }

\* what the user may type into the title entry
Titles == { <<>>, <<"s", "1", "e", "2">>, <<"a", " ", "b">> }

\* App.__init__, lines 235-240 and 318-331
InitApp ==
    /\ folder_path = None
    /\ items = None
    /\ multi_items = None
    /\ season = 1
    /\ mode = "tv"
    /\ movie_path = None
    /\ show_entry = <<>>
    /\ rename_btn = "disabled"
    /\ status_label = Status("Select a folder to start.", 0, <<>>)
    /\ preview_box = EmptyBox
    /\ last_rename = None

Init ==
    /\ fs \in Layouts
    /\ InitApp
    /\ vfiles = <<>>
    /\ vresult = None
    /\ vseason = None
    /\ kind = "title"
    /\ arg = <<<<>>>>
    /\ ntok = 0
    /\ call = None

(***************************************************************************)
(* Events                                                                  *)
(***************************************************************************)
\* the Choose Folder button: the dialog is cancelled (line 335), or returns a folder
ChooseFolder ==
    \/ UNCHANGED vars
    \/ \E folder \in DOMAIN fs :
         \E ls \in ListingsFor(fs, Scanned(fs, folder)) :
            /\ Assign(choose_folder(Self, folder, fs, ls))
            /\ last_rename' = None
            /\ UNCHANGED <<fs, vvars, ivars>>

\* the user edits the title entry
EditTitle ==
    \E t \in Titles :
        /\ show_entry' = t
        /\ last_rename' = None
        /\ UNCHANGED <<fs, folder_path, items, multi_items, season, mode, movie_path,
                       rename_btn, status_label, preview_box, vvars, ivars>>

\* the history of a rename_files call
History(a, fsys, r) ==
    Some([a |-> a, fs |-> fsys, log |-> r.log, renamed_count |-> r.renamed_count,
          raised |-> r.raised, refresh |-> r.refresh])

\* rename_files has run up to the refresh with outcome r
Finish(r) ==
    /\ fs' = r.fs
    /\ last_rename' = History(Self, fs, r)
    /\ UNCHANGED <<vvars, ivars>>
    /\ IF r.refresh
       THEN \E ls \in ListingsFor(r.fs, Scanned(r.fs, Val(folder_path))) :
               Assign(AfterRefresh(build_preview(r.a, r.fs, ls), r.status))
       ELSE Assign(r.a)

\* rename_files runs (its own guards decide whether anything is renamed)
RenameFiles == Finish(rename_files(Self, fs))

Next == ChooseFolder \/ EditTitle \/ RenameFiles

Spec == Init /\ [][Next]_vars

(***************************************************************************)
(* The validator on its own: build_and_verify_episodes applied to every    *)
(* list of at most MaxFiles distinct files of one folder.                  *)
(***************************************************************************)
MaxFiles == 4

N_Ep3 == <<"E", "p", " ", "3", ".", "a", "v", "i">>
N_s0e2 == <<"s", "0", "e", "2", ".", "m", "k", "v">>
N_S02E04 == <<"S", "0", "2", "E", "0", "4", ".", "m", "p", "4">>

\* episodes 1, 2, 2, 3, 4 and two names without a number; three of the names
\* carry a season: 1, 0 and 2
ValNames == {N_S01E01, N_1x02, N_s0e2, N_Ep3, N_S02E04, N_x, N_y}

InitValidate ==
    /\ fs = Layout({}, {}, {})
    /\ InitApp
    /\ vfiles = <<>>
    /\ vresult = None
    /\ vseason = None
    /\ kind = "title"
    /\ arg = <<<<>>>>
    /\ ntok = 0
    /\ call = None

AddFile ==
    \E n \in ValNames :
        /\ Len(vfiles) < MaxFiles
        /\ join(DirSeason1, n) \notin Range(vfiles)
        /\ vfiles' = Append(vfiles, join(DirSeason1, n))
        /\ vresult' = None
        /\ vseason' = None
        /\ UNCHANGED <<fs, appvars, last_rename, ivars>>

Validate ==
    /\ IsNone(vresult)
    /\ vresult' = Some(build_and_verify_episodes(vfiles))
    /\ UNCHANGED <<fs, appvars, last_rename, vfiles, vseason, ivars>>

GuessSeason ==
    /\ IsNone(vseason)
    /\ vseason' = Some(guess_season_from_files(vfiles))
    /\ UNCHANGED <<fs, appvars, last_rename, vfiles, vresult, ivars>>

NextValidate == AddFile \/ Validate \/ GuessSeason

SpecValidate == InitValidate /\ [][NextValidate]_vars

(***************************************************************************)
(* The inference helpers on their own: normalize_show_name on title texts, *)
(* extract_episode_number on file names, extract_season_number_from_folder *)
(* and guess_show_name on folder paths.  An input is one of the examples   *)
(* below or is typed in at most MaxTokens pieces.                          *)
(***************************************************************************)
MaxTokens == 3

TitleTokens == { <<" ">>, <<"\t">>, <<"_">>, <<".">>, <<"-">>, <<"a">> }
FileTokens == { <<"s", "1">>, <<"e">>, <<"p">>, <<"x">>, <<"a">>, <<"1">>, <<"2">>, <<" ">> }
FolderTokens ==
    { <<"S", "e", "a", "s", "o", "n">>, <<"S", "E", "A", "S", "O", "N">>,
      <<"s">>, <<"a">>, <<"1">>, <<"0">>, <<" ">> }


TitleExamples ==
    { <<<<"S", "o", "u", "t", "h", " ", "P", "a", "r", "k">>>>,
      <<<<"T", "h", "e", "_", "W", "a", "l", "k", "i", "n", "g", "-", "D", "e", "a", "d">>>>,
      <<<<" ", " ", "a", ".", ".", "b", "_", "_", "c", " ", " ">>>>,
      <<<<"M", "r", ".", "-", "R", "o", "b", "o", "t">>>>,
      <<<<"P", "o", "k", "é", "m", "o", "n">>>>,
      <<<<"W", "A", "L", "L", "-", "E", " ", "(", "2", "0", "0", "8", ")">>>> }
FileExamples ==
    { <<<<"T", "h", "e", ".", "W", "a", "l", "k", "i", "n", "g", ".", "D", "e", "a", "d", ".", "S", "0", "1", "E", "0", "7", ".", "7", "2", "0", "p", ".", "m", "k", "v">>>>,
      <<<<"S", "h", "o", "w", ".", "1", "x", "1", "2", ".", "m", "k", "v">>>>,
      <<<<"E", "p", " ", "0", "3", " ", "-", " ", "t", "i", "t", "l", "e", ".", "m", "p", "4">>>>,
      <<<<"0", "3", " ", "C", "a", "r", "t", "m", "a", "n", ".", "m", "k", "v">>>>,
      <<<<"0", "1", " ", "T", "h", "e", " ", "O", "n", "e", " ", "0", "5">>>>,
      <<<<"M", "y", "S", "h", "o", "w", ".", "7", "2", "0", "p", ".", "0", "5", ".", "m", "k", "v">>>>,
      <<<<"S", "h", "o", "w", ".", "1", "0", "8", "0", "p", ".", "m", "k", "v">>>>,
      <<<<"S", "h", "o", "w", ".", "m", "p", "4">>>> }
FolderExamples ==
    { <<SouthPark, <<"S", "e", "a", "s", "o", "n", " ", "0", "1">>>>,
      <<SouthPark, <<"S", "0", "1">>>>,
      <<SouthPark, <<"S", "e", "a", "s", "o", "n", " ", "1", " ", "E", "x", "t", "r", "a", "s">>>>,
      <<SouthPark, <<"s", "e", "a", "s", "o", "n", " ", "0">>>>,
      <<SouthPark, <<"D", "i", "s", "c", " ", "1", "2">>>>,
      <<SouthPark, <<"S", "e", "a", "s", "o", "n", " ", "2", " ", "s", "3", " ", "4">>>>,
      <<SouthPark, <<"S", "h", "o", "w", " ", "S", "0", "1", " ", "S", "e", "a", "s", "o", "n", " ", "2">>>>,
      <<SP, <<"S", "o", "u", "t", "h", " ", "P", "a", "r", "k", " ", "T", "h", "e", " ", "E", "n", "d", " ", "O", "f", " ", "O", "b", "e", "s", "i", "t", "y", " ", "2", "0", "2", "4">>>> }

TokensOf(k) ==
    CASE k = "title" -> TitleTokens
      [] k = "file" -> FileTokens
      [] k = "folder" -> FolderTokens

\* the text typed so far: the last component of arg
Typed == arg[Len(arg)]

InitInfer ==
    /\ fs = Layout({}, {}, {})
    /\ InitApp
    /\ vfiles = <<>>
    /\ vresult = None
    /\ vseason = None
    /\ call = None
    /\ \/ kind = "title" /\ arg = <<<<>>>> /\ ntok = 0
       \/ kind = "file" /\ arg = <<<<>>>> /\ ntok = 0
       \/ kind = "folder" /\ arg = <<SP, <<>>>> /\ ntok = 0
       \/ kind = "title" /\ arg \in TitleExamples /\ ntok = MaxTokens
       \/ kind = "file" /\ arg \in FileExamples /\ ntok = MaxTokens
       \/ kind = "folder" /\ arg \in FolderExamples /\ ntok = MaxTokens

\* the input grows by one piece
TypeToken ==
    \E t \in TokensOf(kind) :
        /\ ntok < MaxTokens
        /\ arg' = [arg EXCEPT ![Len(arg)] = @ \o t]
        /\ ntok' = ntok + 1
        /\ call' = None
        /\ UNCHANGED <<fs, appvars, last_rename, vvars, kind>>

Call(fn, val) == Some([fn |-> fn, arg |-> arg, val |-> val])
Returned(fn) == ~IsNone(call) /\ Val(call).fn = fn

Normalize ==
    /\ kind = "title"
    /\ call' = Call("normalize_show_name", normalize_show_name(Typed))
    /\ UNCHANGED <<fs, appvars, last_rename, vvars, kind, arg, ntok>>

\* the result of normalize_show_name is normalized once more (lines 460-461,
\* then 693-694 on the text build_tv_preview wrote back into the entry)
NormalizeAgain ==
    /\ Returned("normalize_show_name")
    /\ call' = Some([fn |-> "again", arg |-> Val(call).val,
                      val |-> normalize_show_name(Val(call).val)])
    /\ UNCHANGED <<fs, appvars, last_rename, vvars, kind, arg, ntok>>

ExtractEpisode ==
    /\ kind = "file"
    /\ call' = Call("extract_episode_number", extract_episode_number(arg))
    /\ UNCHANGED <<fs, appvars, last_rename, vvars, kind, arg, ntok>>

ExtractSeason ==
    /\ kind = "folder"
    /\ call' = Call("extract_season_number_from_folder",
                    extract_season_number_from_folder(arg))
    /\ UNCHANGED <<fs, appvars, last_rename, vvars, kind, arg, ntok>>

GuessShowName ==
    /\ kind = "folder"
    /\ call' = Call("guess_show_name", guess_show_name(arg))
    /\ UNCHANGED <<fs, appvars, last_rename, vvars, kind, arg, ntok>>

NextInfer ==
    TypeToken \/ Normalize \/ NormalizeAgain \/ ExtractEpisode \/ ExtractSeason
        \/ GuessShowName

SpecInfer == InitInfer /\ [][NextInfer]_vars

(***************************************************************************)
(* Properties of the validator (checked under SpecValidate)                *)
(***************************************************************************)
VDone == ~IsNone(vresult)
VRes == Val(vresult)
VEp(i) == extract_episode_number(vfiles[i])
VFailing == {i \in DOMAIN vfiles : IsNone(VEp(i))}
VParsed == VFailing = {}
VNums == {Val(VEp(i)) : i \in DOMAIN vfiles \ VFailing}
VRepeated == {n \in VNums : Cardinality({i \in DOMAIN vfiles : VEp(i) = Some(n)}) > 1}
\* the integers between the least and the greatest of nums that are not in nums
Absent(nums) == UNION {lo..hi : lo \in nums, hi \in nums} \ nums
VAbsent == Absent(VNums)
VKind ==
    IF VRes.raised # "" THEN VRes.raised
    ELSE IF IsNone(VRes.error) THEN "Ok"
    ELSE Val(VRes.error).kind
\* the episode numbers of the input, in input order (when every file parses)
VEpisodes == [i \in DOMAIN vfiles |-> Val(VEp(i))]
Ascending(seq) == \A i, j \in DOMAIN seq : i < j => seq[i] < seq[j]
\* the index of the k-th file without an episode number
KthFailing(k) ==
    CHOOSE i \in VFailing : Cardinality({j \in VFailing : j <= i}) = k

\* C2: when every file parses and some number repeats, the result is
\* DuplicateEpisodes with exactly the repeated numbers, ascending, each once,
\* whether or not the sequence also has a gap; no items are returned.
C2_DuplicatesReported ==
    (VDone /\ VParsed /\ VRepeated # {}) =>
        /\ VKind = "DuplicateEpisodes"
        /\ Ascending(Val(VRes.error).nums)
        /\ Range(Val(VRes.error).nums) = VRepeated
        /\ IsNone(VRes.items)

\* episodes 1, 2, 2, 4: duplicates [2], although 3 is missing
C2_Witness ==
    /\ VDone /\ VParsed
    /\ VEpisodes = <<1, 2, 2, 4>>
    /\ VKind = "DuplicateEpisodes"
    /\ Val(VRes.error).nums = <<2>>

\* C3: when every file parses and no number repeats, the result is
\* MissingEpisodes iff an integer between the least and the greatest number is
\* absent, and then it lists exactly the absent integers, ascending.
C3_MissingReported ==
    (VDone /\ VParsed /\ VRepeated = {}) =>
        /\ (VKind = "MissingEpisodes") <=> (VAbsent # {})
        /\ VAbsent # {} =>
              /\ Ascending(Val(VRes.error).nums)
              /\ Range(Val(VRes.error).nums) = VAbsent
              /\ IsNone(VRes.items)

\* episodes 1, 3, 4: missing [2]
C3_Witness ==
    /\ VDone /\ VParsed
    /\ VEpisodes = <<1, 3, 4>>
    /\ VKind = "MissingEpisodes"
    /\ Val(VRes.error).nums = <<2>>

\* C4: when some file has no episode number the result is UnparsedFiles naming
\* every such file, in input order, whatever the numbers of the other files.
C4_UnparsedReported ==
    (VDone /\ ~VParsed) =>
        /\ VKind = "UnparsedFiles"
        /\ Len(Val(VRes.error).names) = Cardinality(VFailing)
        /\ \A k \in DOMAIN Val(VRes.error).names :
              Val(VRes.error).names[k] = basename(vfiles[KthFailing(k)])
        /\ IsNone(VRes.items)

\* two files without a number, the second one first in the input, and a
\* duplicate among the files that parse
C4_Witness ==
    /\ VDone
    /\ Cardinality(VFailing) = 2
    /\ VRepeated # {}
    /\ Val(VRes.error).names = <<N_y, N_x>>

\* C5: the result is Ok exactly when every file parses and the numbers are
\* pairwise distinct and fill a range lo..hi; the items are then the input
\* files, each once, each with its own number, in strictly ascending order of
\* number; one file that parses is always Ok.
C5_OkExactlyWhenContiguous ==
    VDone =>
        /\ (VKind = "Ok") <=>
              (vfiles # <<>> /\ VParsed /\ VRepeated = {} /\ VAbsent = {})
        /\ VKind = "Ok" =>
              /\ Len(Val(VRes.items)) = Len(vfiles)
              /\ {Val(VRes.items)[i][2] : i \in DOMAIN Val(VRes.items)} = Range(vfiles)
              /\ \A i \in DOMAIN Val(VRes.items) :
                    Some(Val(VRes.items)[i][1]) =
                        extract_episode_number(Val(VRes.items)[i][2])
              /\ Ascending([i \in DOMAIN Val(VRes.items) |-> Val(VRes.items)[i][1]])
        /\ (Len(vfiles) = 1 /\ VParsed) => VKind = "Ok"

\* four files given in the order 4, 1, 3, 2 come back sorted
C5_Witness ==
    /\ VDone /\ VParsed
    /\ VEpisodes = <<4, 1, 3, 2>>
    /\ VKind = "Ok"
    /\ [i \in DOMAIN Val(VRes.items) |-> Val(VRes.items)[i][1]] = <<1, 2, 3, 4>>

\* C20 as stated: build_and_verify_episodes never raises; for every file list,
\* the empty one included, it returns an item list or one of the three errors.
C20_NeverRaises ==
    VDone =>
        /\ VRes.raised = ""
        /\ VKind \in {"Ok", "UnparsedFiles", "DuplicateEpisodes", "MissingEpisodes"}
        /\ (VKind = "Ok") <=> ~IsNone(VRes.items)

\* the empty list: sorted_nums[0] at line 215 raises IndexError
C20_Witness ==
    /\ VDone
    /\ vfiles = <<>>
    /\ VRes.raised = "IndexError"
    /\ IsNone(VRes.items) /\ IsNone(VRes.error)

(***************************************************************************)
(* The rules of the specification, stated on the characters of a name      *)
(***************************************************************************)
IsDigitAt(b, i) == i \in DOMAIN b /\ b[i] \in DigitCh
IsSepAt(b, i) == i \in DOMAIN b /\ b[i] \in {" ", ".", "_", "-"}
IsWordCharAt(b, i) ==
    i \in DOMAIN b /\ (b[i] \in LetterCh \/ b[i] \in DigitCh \/ b[i] = "_")
\* the value of the digits b[i..j]
NumberAt(b, i, j) == ParseInt(SubSeq(b, i, j))
\* the last digit of the run of at most most digits that starts at i
RunEnd(b, i, most) ==
    CHOOSE j \in i..(i + most - 1) :
        /\ \A k \in i..j : IsDigitAt(b, k)
        /\ (j = i + most - 1 \/ ~IsDigitAt(b, j + 1))
\* the base name of a file: the name without its extension
BaseOf(path) == splitext(basename(path))[1]

\* rule 1: S, n digits, m separators, E, a digit, with the S at position i
SxxEyyAt(b, i, n, m) ==
    /\ i \in DOMAIN b /\ b[i] \in {"s", "S"}
    /\ \A k \in 1..n : IsDigitAt(b, i + k)
    /\ \A k \in 1..m : IsSepAt(b, i + n + k)
    /\ (i + n + m + 1) \in DOMAIN b /\ b[i + n + m + 1] \in {"e", "E"}
    /\ IsDigitAt(b, i + n + m + 2)
SxxEyyStarts(b) == {i \in DOMAIN b : \E n \in 1..2 : \E m \in 0..Len(b) : SxxEyyAt(b, i, n, m)}
HasSxxEyy(b) == SxxEyyStarts(b) # {}
FirstOf(S) == CHOOSE i \in S : \A j \in S : i <= j
SxxEyyDigits(b, i) == CHOOSE n \in 1..2 : \E m \in 0..Len(b) : SxxEyyAt(b, i, n, m)
SxxEyySeps(b, i) == CHOOSE m \in 0..Len(b) : SxxEyyAt(b, i, SxxEyyDigits(b, i), m)
\* the season and the episode of the first SxxEyy marker of b
SxxEyySeason(b) == NumberAt(b, FirstOf(SxxEyyStarts(b)) + 1,
                            FirstOf(SxxEyyStarts(b)) + SxxEyyDigits(b, FirstOf(SxxEyyStarts(b))))
EpisodeFrom(b, i) == NumberAt(b, i, RunEnd(b, i, 2))
SxxEyyEpisode(b) ==
    EpisodeFrom(b, FirstOf(SxxEyyStarts(b)) + SxxEyyDigits(b, FirstOf(SxxEyyStarts(b)))
                     + SxxEyySeps(b, FirstOf(SxxEyyStarts(b))) + 2)

(***************************************************************************)
(* Properties of guess_season_from_files (checked under SpecValidate)      *)
(***************************************************************************)
SeasonHits == {i \in DOMAIN vfiles : HasSxxEyy(BaseOf(vfiles[i]))}
AtLeastOne(n) == IF n = 0 THEN 1 ELSE n

\* C14: guess_season_from_files returns None exactly when no file matches
\* rule 1, and otherwise the season of the first file that does, 0 replaced
\* by 1, whatever the files after it say.
C14_FirstSeasonMarkerWins ==
    ~IsNone(vseason) =>
        IF SeasonHits = {} THEN IsNone(Val(vseason))
        ELSE Val(vseason) =
                Some(AtLeastOne(SxxEyySeason(BaseOf(vfiles[FirstOf(SeasonHits)]))))

\* a file without a marker, then season 0, then season 2: the result is 1
C14_Witness ==
    /\ ~IsNone(vseason)
    /\ vfiles = <<join(DirSeason1, N_x), join(DirSeason1, N_s0e2), join(DirSeason1, N_S02E04)>>
    /\ Val(vseason) = Some(1)

(***************************************************************************)
(* Properties of normalize_show_name (checked under SpecInfer)             *)
(***************************************************************************)
Ret == Val(call).val
IsBlank(t) == \A i \in DOMAIN t : t[i] \in {" ", "\t"}

\* C18: the output of normalize_show_name holds no whitespace, no underscore
\* and no two dots in a row, neither starts nor ends with a dot, and is empty
\* for an empty or whitespace-only input.
C18_NormalizedShape ==
    Returned("normalize_show_name") =>
        /\ \A i \in DOMAIN Ret : Ret[i] \notin {" ", "\t", "_"}
        /\ \A i \in DOMAIN Ret : (i + 1) \in DOMAIN Ret => ~(Ret[i] = "." /\ Ret[i + 1] = ".")
        /\ Ret # <<>> => (Ret[1] # "." /\ Ret[Len(Ret)] # ".")
        /\ IsBlank(Typed) => Ret = <<>>

\* '  a..b__c  ' becomes 'a.b.c'
C18_Witness ==
    /\ Returned("normalize_show_name")
    /\ Typed = <<" ", " ", "a", ".", ".", "b", "_", "_", "c", " ", " ">>
    /\ Ret = <<"a", ".", "b", ".", "c">>

IsLetterOrDigit(c) == c \in LetterCh \cup DigitCh

\* C22 as stated: every character of the output of normalize_show_name is an
\* ASCII letter, an ASCII digit or a dot.
C22_AsciiOnly ==
    Returned("normalize_show_name") =>
        \A i \in DOMAIN Ret : Ret[i] \in AsciiLetterCh \cup DigitCh \cup {"."}

\* C22: every character of the output of normalize_show_name is a letter, a
\* digit or a dot, and the letters and digits of the input, accented letters
\* included, are kept in their order.
C22_LettersDigitsDots ==
    Returned("normalize_show_name") =>
        /\ \A i \in DOMAIN Ret : IsLetterOrDigit(Ret[i]) \/ Ret[i] = "."
        /\ SelectSeq(Ret, IsLetterOrDigit) = SelectSeq(Typed, IsLetterOrDigit)

\* the accented letter of 'Pokémon' is kept
C22_Witness ==
    /\ Returned("normalize_show_name")
    /\ Typed = <<"P", "o", "k", "é", "m", "o", "n">>
    /\ \E i \in DOMAIN Ret : Ret[i] \notin AsciiLetterCh \cup DigitCh \cup {"."}
    /\ Ret = Typed

\* C19: normalize_show_name is idempotent: normalizing its result again, as
\* rename_files does with the title the preview wrote back, changes nothing.
C19_NormalizeIdempotent ==
    Returned("again") => Ret = Val(call).arg

\* 'Mr.-Robot' was changed by the first call ('Mr.Robot') and not by the second
C19_Witness ==
    /\ Returned("again")
    /\ Typed = <<"M", "r", ".", "-", "R", "o", "b", "o", "t">>
    /\ Val(call).arg # Typed
    /\ Ret = <<"M", "r", ".", "R", "o", "b", "o", "t">>

(***************************************************************************)
(* Properties of extract_episode_number (checked under SpecInfer).  The    *)
(* five rules are stated on the characters of the base name b.             *)
(***************************************************************************)
Rule1(b) == IF HasSxxEyy(b) THEN Some(SxxEyyEpisode(b)) ELSE None

\* rule 2: n digits, x, 1-2 digits, word-bounded on both sides, from position i
NxMAt(b, i, n) ==
    /\ ~IsWordCharAt(b, i - 1)
    /\ \A k \in 0..(n - 1) : IsDigitAt(b, i + k)
    /\ (i + n) \in DOMAIN b /\ b[i + n] \in {"x", "X"}
    /\ IsDigitAt(b, i + n + 1)
    /\ ~IsWordCharAt(b, RunEnd(b, i + n + 1, 2) + 1)
NxMStarts(b) == {i \in DOMAIN b : \E n \in 1..2 : NxMAt(b, i, n)}
Rule2(b) ==
    IF NxMStarts(b) = {} THEN None
    ELSE Some(EpisodeFrom(b, FirstOf(NxMStarts(b))
                             + (CHOOSE n \in 1..2 : NxMAt(b, FirstOf(NxMStarts(b)), n)) + 1))

\* rule 3: E, an optional P, an optional separator, 1-2 digits that end at a
\* word boundary, with the E at position i
EpDigits(b, i) ==
    i + 1 + (IF (i + 1) \in DOMAIN b /\ b[i + 1] \in {"p", "P"} THEN 1 ELSE 0)
EpNumberStart(b, i) == EpDigits(b, i) + (IF IsSepAt(b, EpDigits(b, i)) THEN 1 ELSE 0)
EpAt(b, i) ==
    /\ i \in DOMAIN b /\ b[i] \in {"e", "E"}
    /\ IsDigitAt(b, EpNumberStart(b, i))
    /\ ~IsWordCharAt(b, RunEnd(b, EpNumberStart(b, i), 2) + 1)
EpStarts(b) == {i \in DOMAIN b : EpAt(b, i)}
Rule3(b) ==
    IF EpStarts(b) = {} THEN None
    ELSE Some(EpisodeFrom(b, EpNumberStart(b, FirstOf(EpStarts(b)))))
\* rule 3 with the marker also beginning at a word boundary
EpStartsBounded(b) == {i \in EpStarts(b) : ~IsWordCharAt(b, i - 1)}
Rule3Bounded(b) ==
    IF EpStartsBounded(b) = {} THEN None
    ELSE Some(EpisodeFrom(b, EpNumberStart(b, FirstOf(EpStartsBounded(b)))))

\* rule 4: the digits at the start, after any whitespace
LeadStart(b) == FirstOf({i \in 1..(Len(b) + 1) : i = Len(b) + 1 \/ b[i] \notin {" ", "\t"}})
Rule4(b) ==
    IF IsDigitAt(b, LeadStart(b))
    THEN Some(NumberAt(b, LeadStart(b), RunEnd(b, LeadStart(b), Len(b))))
    ELSE None

\* rule 5: the digit runs cut into pieces of two from the left; the last piece
LastDigit(b) == CHOOSE q \in DOMAIN b : IsDigitAt(b, q) /\ \A j \in DOMAIN b : IsDigitAt(b, j) => j <= q
LastRunStart(b) == FirstOf({i \in 1..LastDigit(b) : \A k \in i..LastDigit(b) : IsDigitAt(b, k)})
Rule5(b) ==
    IF \A i \in DOMAIN b : ~IsDigitAt(b, i) THEN None
    ELSE IF (LastDigit(b) - LastRunStart(b)) % 2 = 1
    THEN Some(NumberAt(b, LastDigit(b) - 1, LastDigit(b)))
    ELSE Some(NumberAt(b, LastDigit(b), LastDigit(b)))

\* the first result of rs that is not None
FirstSome(rs) ==
    IF \A i \in DOMAIN rs : IsNone(rs[i]) THEN None
    ELSE rs[FirstOf({i \in DOMAIN rs : ~IsNone(rs[i])})]

EpisodeBase == BaseOf(Val(call).arg)
Example(name, val) == Val(call).arg = <<name>> => Ret = val

\* C12: extract_episode_number returns the number of the lowest-numbered rule
\* that matches the base name, whatever the later rules would give, and None
\* when no rule matches; the four example names give 7, 12, 3 and 3.
C12_FirstRuleWins ==
    Returned("extract_episode_number") =>
        /\ Ret = FirstSome(<<Rule1(EpisodeBase), Rule2(EpisodeBase), Rule3(EpisodeBase),
                             Rule4(EpisodeBase), Rule5(EpisodeBase)>>)
        /\ Example(<<"T", "h", "e", ".", "W", "a", "l", "k", "i", "n", "g", ".", "D", "e", "a", "d", ".", "S", "0", "1", "E", "0", "7", ".", "7", "2", "0", "p", ".", "m", "k", "v">>, Some(7))
        /\ Example(<<"S", "h", "o", "w", ".", "1", "x", "1", "2", ".", "m", "k", "v">>, Some(12))
        /\ Example(<<"E", "p", " ", "0", "3", " ", "-", " ", "t", "i", "t", "l", "e", ".", "m", "p", "4">>, Some(3))
        /\ Example(<<"0", "3", " ", "C", "a", "r", "t", "m", "a", "n", ".", "m", "k", "v">>, Some(3))

\* 'The.Walking.Dead.S01E07.720p.mkv': rule 1 gives 7 where rule 5 gives 0
C12_Witness ==
    /\ Returned("extract_episode_number")
    /\ Val(call).arg = <<<<"T", "h", "e", ".", "W", "a", "l", "k", "i", "n", "g", ".", "D", "e", "a", "d", ".", "S", "0", "1", "E", "0", "7", ".", "7", "2", "0", "p", ".", "m", "k", "v">>>>
    /\ Ret = Some(7)
    /\ Rule5(EpisodeBase) = Some(0)
    /\ IsNone(Rule2(EpisodeBase)) /\ IsNone(Rule4(EpisodeBase))

\* C13 as stated: rule 3 matches only a marker that begins at a word boundary,
\* so a name matched by neither rule 1, rule 2 nor the word-bounded rule 3
\* gets the number of rule 4 or rule 5.
C13_Rule3WordBounded ==
    (/\ Returned("extract_episode_number")
     /\ IsNone(Rule1(EpisodeBase))
     /\ IsNone(Rule2(EpisodeBase))
     /\ IsNone(Rule3Bounded(EpisodeBase))) =>
        Ret = FirstSome(<<Rule4(EpisodeBase), Rule5(EpisodeBase)>>)

\* '01 The One 05': the e that ends 'One' is taken as the marker and the
\* result is 5, not the leading 1
C13_Witness ==
    /\ Returned("extract_episode_number")
    /\ Val(call).arg = <<<<"0", "1", " ", "T", "h", "e", " ", "O", "n", "e", " ", "0", "5">>>>
    /\ IsNone(Rule3Bounded(EpisodeBase))
    /\ Rule4(EpisodeBase) = Some(1)
    /\ Ret = Some(5)

OnlyRule5 ==
    /\ Returned("extract_episode_number")
    /\ IsNone(Rule1(EpisodeBase)) /\ IsNone(Rule2(EpisodeBase))
    /\ IsNone(Rule3(EpisodeBase)) /\ IsNone(Rule4(EpisodeBase))
    /\ ~IsNone(Ret)

\* C23: when only rule 5 applies, the number returned is not taken from
\* inside a run of three or more digits: the digits it is read from, the end
\* of the last run, belong to a run of at most two.
C23_Rule5IgnoresLongRuns ==
    OnlyRule5 => LastDigit(EpisodeBase) - LastRunStart(EpisodeBase) + 1 <= 2

\* 'Show.1080p.mkv': no rule but the fifth applies and 80 is read out of 1080
C23_Witness ==
    /\ OnlyRule5
    /\ Val(call).arg = <<<<"S", "h", "o", "w", ".", "1", "0", "8", "0", "p", ".", "m", "k", "v">>>>
    /\ LastDigit(EpisodeBase) - LastRunStart(EpisodeBase) + 1 = 4
    /\ Ret = Some(80)

HasDigit(b) == \E i \in DOMAIN b : IsDigitAt(b, i)

\* C24: extract_episode_number returns None exactly when the base name
\* without its extension holds no digit, whatever digits the extension holds
\* ('Show.mp4' gives None), and every other result is a natural number.
C24_NoneIffNoDigit ==
    Returned("extract_episode_number") =>
        /\ IsNone(Ret) <=> ~HasDigit(EpisodeBase)
        /\ ~IsNone(Ret) => Val(Ret) \in Nat
        /\ Example(<<"S", "h", "o", "w", ".", "m", "p", "4">>, None)

\* 'Show.mp4': the only digit is the 4 of the extension
C24_Witness ==
    /\ Returned("extract_episode_number")
    /\ Val(call).arg = <<<<"S", "h", "o", "w", ".", "m", "p", "4">>>>
    /\ HasDigit(basename(Val(call).arg)) /\ ~HasDigit(EpisodeBase)
    /\ IsNone(Ret)

(***************************************************************************)
(* Properties of extract_season_number_from_folder (checked under          *)
(* SpecInfer).  The three rules are stated on the characters of the leaf.  *)
(***************************************************************************)
\* the word Season or season begins at position i
SeasonWordAt(b, i) ==
    /\ (i + 5) \in DOMAIN b
    /\ b[i] \in {"s", "S"}
    /\ SubSeq(b, i + 1, i + 5) = <<"e", "a", "s", "o", "n">>
DigitsAfter(b, i) == {j \in DOMAIN b : j > i /\ IsDigitAt(b, j)}
\* (a) the first run of digits after the first word season that has one
SeasonWords(b) == {i \in DOMAIN b : SeasonWordAt(b, i) /\ DigitsAfter(b, i + 5) # {}}
RuleA(b) ==
    IF SeasonWords(b) = {} THEN None
    ELSE Some(NumberAt(b, FirstOf(DigitsAfter(b, FirstOf(SeasonWords(b)) + 5)),
                       RunEnd(b, FirstOf(DigitsAfter(b, FirstOf(SeasonWords(b)) + 5)), Len(b))))
\* (b) the 1-2 digits after the first S or s that a digit follows
ShortMarkers(b) == {i \in DOMAIN b : b[i] \in {"s", "S"} /\ IsDigitAt(b, i + 1)}
RuleB(b) ==
    IF ShortMarkers(b) = {} THEN None
    ELSE Some(EpisodeFrom(b, FirstOf(ShortMarkers(b)) + 1))
\* (c) the last run of digits
RuleC(b) ==
    IF DigitsAfter(b, 0) = {} THEN None
    ELSE Some(NumberAt(b, LastRunStart(b), LastDigit(b)))

Leaf == basename(Val(call).arg)
Parent == basename(dirname(Val(call).arg))

\* C16: extract_season_number_from_folder returns the number of the first of
\* the rules (a), (b), (c) that matches the leaf folder name, with 0 replaced
\* by 1, and 1 for a name without digits.
C16_FirstSeasonRuleWins ==
    Returned("extract_season_number_from_folder") =>
        /\ Ret >= 1
        /\ IF DigitsAfter(Leaf, 0) = {} THEN Ret = 1
           ELSE Ret = AtLeastOne(Val(FirstSome(<<RuleA(Leaf), RuleB(Leaf), RuleC(Leaf)>>)))

\* 'Season 2 s3 4': (a) gives 2 where (b) gives 3 and (c) gives 4
C16_Witness ==
    /\ Returned("extract_season_number_from_folder")
    /\ Leaf = <<"S", "e", "a", "s", "o", "n", " ", "2", " ", "s", "3", " ", "4">>
    /\ RuleB(Leaf) = Some(3) /\ RuleC(Leaf) = Some(4)
    /\ Ret = 2

(***************************************************************************)
(* Properties of guess_show_name (checked under SpecInfer).  The two       *)
(* trailing markers are stated on the characters of the leaf.              *)
(***************************************************************************)
EndsInDigits(b) == b # <<>> /\ IsDigitAt(b, Len(b))
\* the last position before p that holds no separator, 0 when there is none
BeforeSeps(b, p) ==
    CHOOSE j \in 0..(p - 1) :
        /\ (j > 0 => b[j] \notin SepSpCh)
        /\ \A k \in (j + 1)..(p - 1) : b[k] \in SepSpCh
\* the name ends in the word season (any case), separators and digits
SeasonMarkerAtEnd(b) ==
    /\ EndsInDigits(b)
    /\ BeforeSeps(b, LastRunStart(b)) >= 6
    /\ Lower(SubSeq(b, BeforeSeps(b, LastRunStart(b)) - 5, BeforeSeps(b, LastRunStart(b))))
           = <<"s", "e", "a", "s", "o", "n">>
WithoutSeasonMarker(b) ==
    IF SeasonMarkerAtEnd(b)
    THEN SubSeq(b, 1, BeforeSeps(b, BeforeSeps(b, LastRunStart(b)) - 5))
    ELSE b
\* the name ends in S or s and one or two digits
ShortMarkerStarts(b) ==
    {i \in {Len(b) - 2, Len(b) - 1} :
        /\ i \in DOMAIN b
        /\ b[i] \in {"s", "S"}
        /\ \A k \in (i + 1)..Len(b) : IsDigitAt(b, k)}
WithoutShortMarker(b) ==
    IF ShortMarkerStarts(b) = {} THEN b
    ELSE SubSeq(b, 1, BeforeSeps(b, FirstOf(ShortMarkerStarts(b))))
Trimmed(b) == Strip(b, {" ", ".", "-", "_"})
TitleFrom(remainder, parent) ==
    normalize_show_name(IF remainder # <<>> /\ Lower(remainder) # <<"s", "e", "a", "s", "o", "n">>
                        THEN remainder ELSE parent)

\* C17 as stated: one season marker, the word season with digits or S with
\* 1-2 digits, is removed from the leaf only when it ends the name; the
\* title is normalize(remainder) when the remainder is non-empty and not the
\* word season, else normalize(parent).
C17_OneTrailingMarker ==
    Returned("guess_show_name") =>
        Ret = TitleFrom(Trimmed(IF SeasonMarkerAtEnd(Leaf) THEN WithoutSeasonMarker(Leaf)
                                ELSE WithoutShortMarker(Leaf)),
                        Parent)

\* C17: a trailing season + digits marker is removed from the leaf, then a
\* trailing S + 1-2 digits marker of what is left, then separators at both
\* ends; the title is normalize(remainder) when the remainder is non-empty
\* and not the word season, else normalize(parent).
C17_TrailingMarkersRemoved ==
    Returned("guess_show_name") =>
        Ret = TitleFrom(Trimmed(WithoutShortMarker(WithoutSeasonMarker(Leaf))), Parent)

\* 'Season 01' under 'South Park' gives South.Park
C17_Witness ==
    /\ Returned("guess_show_name")
    /\ Leaf = <<"S", "e", "a", "s", "o", "n", " ", "0", "1">> /\ Parent = <<"S", "o", "u", "t", "h", " ", "P", "a", "r", "k">>
    /\ SeasonMarkerAtEnd(Leaf)
    /\ Ret = <<"S", "o", "u", "t", "h", ".", "P", "a", "r", "k">>

(***************************************************************************)
(* Properties of the rename operation (checked under Spec).  last_rename   *)
(* records the latest call of rename_files: the application state and the  *)
(* file system before the call, and one log entry per plan entry reached.  *)
(***************************************************************************)
Called == ~IsNone(last_rename)
H == Val(last_rename)
Ops == {H.log[i] : i \in DOMAIN H.log}
RenamedOps == {op \in Ops : op.renamed}
FailedPreview(a) == a.preview_box.errors # <<>>
NothingRenamed == H.log = <<>> /\ fs = H.fs /\ H.renamed_count = 0

\* C1: a rename never overwrites: every destination did not exist just before
\* its rename, every folder holds as many files after the batch as before, and
\* every file of before that is still named as before or was itself renamed.
C1_NeverOverwrites ==
    Called =>
        /\ \A op \in RenamedOps : ~Exists(op.fs, op.dst)
        /\ DOMAIN fs = DOMAIN H.fs
        /\ \A d \in DOMAIN fs : Cardinality(fs[d]) = Cardinality(H.fs[d])
        /\ \A d \in DOMAIN fs : \A n \in H.fs[d] :
              n \in fs[d] \/ \E op \in RenamedOps : op.src = join(d, n)

\* a rename whose computed target was taken and that went to another name
C1_Witness ==
    /\ Called
    /\ \E op \in RenamedOps : op.dst # op.target /\ Exists(op.fs, op.target)

\* C6: a multi-season preview in which some season failed leaves no plan and
\* the Rename button disabled, and rename_files called then renames nothing.
C6_MultiAllOrNothing ==
    /\ (mode = "multi" /\ FailedPreview(Self)) =>
          (IsNone(multi_items) /\ rename_btn = "disabled")
    /\ (Called /\ H.a.mode = "multi" /\ FailedPreview(H.a)) => NothingRenamed

\* rename_files called after a multi-season preview with one valid season (its
\* lines are in the preview) and one failed season
C6_Witness ==
    /\ Called
    /\ H.a.mode = "multi"
    /\ FailedPreview(H.a)
    /\ H.a.preview_box.lines # <<>>
    /\ NothingRenamed

PlanPresent(a) ==
    CASE a.mode = "movie" -> ~IsNone(a.movie_path)
      [] a.mode = "tv" -> ~IsNone(a.items) /\ Val(a.items) # <<>>
      [] a.mode = "multi" -> ~IsNone(a.multi_items) /\ Val(a.multi_items) # <<>>
      [] OTHER -> FALSE

\* C7: the Rename button is enabled only while the plan of the current mode is
\* present; after a failed preview every plan is None and rename_files renames
\* nothing.
C7_ButtonNeedsPlan ==
    /\ rename_btn = "normal" => PlanPresent(Self)
    /\ FailedPreview(Self) =>
          (IsNone(items) /\ IsNone(multi_items) /\ IsNone(movie_path)
           /\ rename_btn = "disabled")
    /\ (Called /\ FailedPreview(H.a)) => NothingRenamed

\* rename_files called after a failed single-season preview
C7_Witness ==
    /\ Called
    /\ H.a.mode = "tv"
    /\ FailedPreview(H.a)
    /\ NothingRenamed

\* C8 as stated: no two entries of one plan receive the same target file name.
C8_DistinctNames ==
    Called =>
        \A i, j \in DOMAIN H.log :
            i # j => basename(H.log[i].dst) # basename(H.log[j].dst)

\* C8: no two entries of one plan receive the same target path, and every
\* entry's file is at its target path once the batch is done.
C8_DistinctPaths ==
    (Called /\ H.raised = "") =>
        /\ \A i, j \in DOMAIN H.log : i # j => H.log[i].dst # H.log[j].dst
        /\ \A op \in Ops : Exists(fs, op.dst)

\* a multi-season plan whose entries in different folders get the same name
C8_Witness ==
    /\ Called
    /\ H.a.mode = "multi"
    /\ \E i, j \in DOMAIN H.log :
          /\ i # j
          /\ H.log[i].renamed /\ H.log[j].renamed
          /\ basename(H.log[i].dst) = basename(H.log[j].dst)
          /\ dirname(H.log[i].dst) # dirname(H.log[j].dst)

\* the k-th candidate of an entry: stem_k + ext in the entry's folder
Candidate(op, k) ==
    join(dirname(op.src),
         Suffixed(splitext(basename(op.target))[1], k, splitext(basename(op.target))[2]))
MaxSuffix(op) == Cardinality(op.fs[dirname(op.src)]) + Cardinality(DOMAIN op.fs) + 1

\* C9: a renamed entry goes to its computed target when that is free, and
\* otherwise to stem_k + ext for the least k >= 1 for which it is free.
C9_LeastFreeSuffix ==
    Called =>
        \A op \in RenamedOps :
            IF ~Exists(op.fs, op.target)
            THEN op.dst = op.target
            ELSE \E k \in 1..MaxSuffix(op) :
                    /\ op.dst = Candidate(op, k)
                    /\ ~Exists(op.fs, Candidate(op, k))
                    /\ \A j \in 1..(k - 1) : Exists(op.fs, Candidate(op, j))

\* target and stem_1 both taken: the entry goes to stem_2
C9_Witness ==
    /\ Called
    /\ \E op \in RenamedOps :
          /\ Exists(op.fs, op.target)
          /\ Exists(op.fs, Candidate(op, 1))
          /\ op.dst = Candidate(op, 2)

\* C10: an entry whose source already is its computed target is not renamed,
\* every other entry is, and the count reported is the number of entries whose
\* source differs from the target; an all-identity batch changes nothing.
C10_IdentityIsNoOp ==
    (Called /\ H.raised = "") =>
        /\ \A op \in Ops :
              /\ op.src = op.target => (~op.renamed /\ op.dst = op.src)
              /\ op.src # op.target => op.renamed
        /\ H.renamed_count = Cardinality({i \in DOMAIN H.log : H.log[i].src # H.log[i].target})
        /\ (\A op \in Ops : op.src = op.target) => fs = H.fs
        /\ (H.a.mode = "tv" /\ PlanPresent(H.a)) => Len(H.log) = Len(Val(H.a.items))
        /\ (H.a.mode = "multi" /\ PlanPresent(H.a)) => Len(H.log) = Len(Val(H.a.multi_items))
        /\ (H.a.mode \in {"tv", "multi"} /\ H.log # <<>>) =>
              status_label.count = H.renamed_count

\* a season whose files all carry their canonical names already: 0 renamed
C10_Witness ==
    /\ Called
    /\ H.a.mode = "tv"
    /\ Len(H.log) = 2
    /\ \A op \in Ops : op.src = op.target /\ ~op.renamed
    /\ H.renamed_count = 0
    /\ status_label.count = 0
    /\ fs = H.fs

(***************************************************************************)
(* Season precedence (checked under Spec).                                 *)
(***************************************************************************)
VideoNames(fsys, folder) == {n \in fsys[folder] : IsVideoName(n)}
\* what seasonFromFiles may return for a folder, over the orders of its listing
FileSeasons(fsys, folder) ==
    {guess_season_from_files(VideoPaths(folder, p)) : p \in Perms(VideoNames(fsys, folder))}
PlannedSeasons(fsys, folder) ==
    {IF IsNone(g) THEN extract_season_number_from_folder(folder) ELSE Val(g) :
        g \in FileSeasons(fsys, folder)}
\* the target of op carries season s and episode e
SeasonWritten(op, title, s, e) ==
    basename(op.target) = TvStem(title, Pad2(s), e) \o ExtOf(op.src)

Renders(w, n) ==
    /\ Len(w) >= 2
    /\ \A i \in DOMAIN w : IsDigitAt(w, i)
    /\ ParseInt(w) = n
    /\ (Len(w) > 2 => w[1] # "0")
Splits(name, pre, k, mid, m, ext) ==
    /\ Len(name) = Len(pre) + k + Len(mid) + m + Len(ext)
    /\ SubSeq(name, 1, Len(pre)) = pre
    /\ SubSeq(name, Len(pre) + k + 1, Len(pre) + k + Len(mid)) = mid
    /\ SubSeq(name, Len(name) - Len(ext) + 1, Len(name)) = ext
\* name is pre SS mid EE ext, with SS and EE rendering s and e
Templated(name, pre, mid, s, e, ext) ==
    \E k, m \in 2..Len(name) :
        /\ Splits(name, pre, k, mid, m, ext)
        /\ Renders(SubSeq(name, Len(pre) + 1, Len(pre) + k), s)
        /\ Renders(SubSeq(name, Len(pre) + k + Len(mid) + 1, Len(pre) + k + Len(mid) + m), e)
IsTargetName(name, title, s, e, ext) ==
    IF title # <<>>
    THEN Templated(name, title \o <<".", "s">>, <<".", "e">>, s, e, ext)
    ELSE Templated(name, <<"s">>, <<"e">>, s, e, ext)
LowerExt(path) == Lower(splitext(basename(path))[2])

\* C11: in single-season mode every preview line and every target computed
\* by rename_files is title.sSS.eEE + ext, or sSSeEE + ext for an empty
\* normalized title, in the folder of the source, with the season and the
\* episode of the plan entry padded to at least two digits and the lower-cased
\* extension of the source; the entries come in the order of the plan.
C11_TargetTemplate ==
    /\ (mode = "tv" /\ PlanPresent(Self)) =>
          /\ Len(preview_box.lines) = Len(Val(items))
          /\ \A i \in DOMAIN Val(items) :
                /\ preview_box.lines[i][1] = basename(Val(items)[i][2])
                /\ IsTargetName(preview_box.lines[i][2], preview_box.title, season,
                                Val(items)[i][1], LowerExt(Val(items)[i][2]))
    /\ (Called /\ H.a.mode = "tv") =>
          \A i \in DOMAIN H.log :
              /\ H.log[i].src = Val(H.a.items)[i][2]
              /\ dirname(H.log[i].target) = dirname(H.log[i].src)
              /\ IsTargetName(basename(H.log[i].target),
                              normalize_show_name(Strip(H.a.show_entry, SpaceCh)),
                              H.a.season, Val(H.a.items)[i][1], LowerExt(H.log[i].src))

\* South Park/Season 01 with S01E01..S01E03 and the title South.Park
C11_Witness ==
    /\ Called /\ H.a.mode = "tv"
    /\ H.a.folder_path = Some(<<SouthPark, <<"S", "e", "a", "s", "o", "n", " ", "0", "1">>>>)
    /\ H.a.show_entry = <<"S", "o", "u", "t", "h", ".", "P", "a", "r", "k">>
    /\ [i \in DOMAIN H.log |-> basename(H.log[i].target)] =
          << <<"S", "o", "u", "t", "h", ".", "P", "a", "r", "k", ".", "s", "0", "1", ".", "e", "0", "1", ".", "m", "p", "4">>,
             <<"S", "o", "u", "t", "h", ".", "P", "a", "r", "k", ".", "s", "0", "1", ".", "e", "0", "2", ".", "m", "p", "4">>,
             <<"S", "o", "u", "t", "h", ".", "P", "a", "r", "k", ".", "s", "0", "1", ".", "e", "0", "3", ".", "m", "p", "4">> >>
    /\ \A op \in Ops : op.renamed /\ Exists(fs, op.target)

(***************************************************************************)
(* Movie mode (checked under Spec).                                        *)
(***************************************************************************)
\* the title of a movie: the entry when it normalizes to something, else the
\* title inferred from the folder
TitleAvailable(a) ==
    IF normalize_show_name(Strip(a.show_entry, SpaceCh)) # <<>>
    THEN normalize_show_name(Strip(a.show_entry, SpaceCh))
    ELSE normalize_show_name(guess_show_name(Val(a.folder_path)))
MovieCalled == Called /\ H.a.mode = "movie" /\ ~IsNone(H.a.movie_path)

\* C21: in movie mode without a title, from the entry or from the folder,
\* rename_files renames nothing: the file system, the file and the stored
\* movie path stay as they were and only the status line changes; with a
\* title the target is title + lower-cased extension in the movie's folder.
C21_MovieNeedsTitle ==
    MovieCalled =>
        IF TitleAvailable(H.a) = <<>>
        THEN /\ NothingRenamed
             /\ movie_path = H.a.movie_path /\ Exists(fs, Val(movie_path))
             /\ status_label.msg = "No title set - leaving movie name as-is."
             /\ <<folder_path, items, multi_items, season, mode, show_entry, rename_btn,
                  preview_box>>
                  = <<H.a.folder_path, H.a.items, H.a.multi_items, H.a.season, H.a.mode,
                      H.a.show_entry, H.a.rename_btn, H.a.preview_box>>
        ELSE /\ Len(H.log) = 1
             /\ H.log[1].src = Val(H.a.movie_path)
             /\ H.log[1].target =
                    join(dirname(H.log[1].src), TitleAvailable(H.a) \o LowerExt(H.log[1].src))

\* Film.MKV in a top-level folder S01 with an empty title entry
C21_Witness ==
    /\ MovieCalled
    /\ H.a.show_entry = <<>>
    /\ guess_show_name(Val(H.a.folder_path)) = <<>>
    /\ H.a.rename_btn = "normal"
    /\ NothingRenamed
    /\ Exists(fs, Val(movie_path))

(***************************************************************************)
(* Renaming and the re-scan that follows it (checked under Spec).          *)
(***************************************************************************)
TitleHasMarker(t) == HasSxxEyy(t) \/ ~IsNone(Rule2(t)) \/ ~IsNone(Rule3(t))
\* a single-season rename that went through without a collision
CleanTvRename ==
    /\ Called /\ H.a.mode = "tv" /\ H.raised = "" /\ H.log # <<>>
    /\ \A op \in Ops : op.dst = op.target
    /\ ~TitleHasMarker(TvShowName(H.a))

\* C25: after such a rename the re-scan validates, with the season and every
\* file's episode number as before, and a second rename would rename nothing.
C25_RescanStable ==
    CleanTvRename =>
        /\ mode = "tv" /\ PlanPresent(Self)
        /\ season = H.a.season
        /\ Val(items) = [i \in DOMAIN H.log |-> <<Val(H.a.items)[i][1], H.log[i].dst>>]
        /\ rename_files(Self, fs).renamed_count = 0
        /\ rename_files(Self, fs).fs = fs

\* episodes 100 and 101 of season 1: both new names are read as episode 10
\* and the re-scan reports a duplicate
C25_Witness ==
    /\ CleanTvRename
    /\ H.a.season = 1
    /\ {Val(H.a.items)[i][1] : i \in DOMAIN H.log} = {100, 101}
    /\ \A op \in Ops : op.renamed /\ extract_episode_number(op.dst) = Some(10)
    /\ IsNone(items)
    /\ FailedPreview(Self)

(***************************************************************************)
(* The names applied and the names previewed (checked under Spec).         *)
(***************************************************************************)
\* a plan was renamed to the end without a collision
PlanRenamed ==
    /\ Called /\ H.a.mode \in {"tv", "multi"} /\ H.raised = "" /\ H.log # <<>>
    /\ \A op \in Ops : op.dst = op.target
Shown == H.a.preview_box.lines
\* the title rename_files reads from the entry at the click
ClickTitle == IF H.a.mode = "tv" THEN TvShowName(H.a) ELSE MultiShowName(H.a)
PlanAtClick ==
    IF H.a.mode = "tv" THEN TvEntries(H.a.season, Val(H.a.items)) ELSE Val(H.a.multi_items)

\* C26 as stated: whatever happened between the preview and the click, the
\* names applied are the target names of the preview shown at the click, in
\* the same order.
C26_AppliedIsPreviewed ==
    PlanRenamed =>
        [i \in DOMAIN H.log |-> basename(H.log[i].dst)] = [i \in DOMAIN Shown |-> Shown[i][2]]

\* C26: the files renamed are those of the preview, in its order; the names
\* applied are the previewed ones when the title read at the click is the
\* previewed title, and in every case they are built from the title read at
\* the click with the seasons, episodes and extensions of the plan.
C26_AppliedFollowsClickTitle ==
    PlanRenamed =>
        /\ [i \in DOMAIN H.log |-> basename(H.log[i].src)] = [i \in DOMAIN Shown |-> Shown[i][1]]
        /\ ClickTitle = H.a.preview_box.title =>
              [i \in DOMAIN H.log |-> basename(H.log[i].dst)]
                  = [i \in DOMAIN Shown |-> Shown[i][2]]
        /\ \A i \in DOMAIN H.log :
              basename(H.log[i].dst) =
                  TvStem(ClickTitle, Pad2(PlanAtClick[i][1]), PlanAtClick[i][2])
                      \o LowerExt(H.log[i].src)

\* the title was edited after the preview: the names applied carry the new
\* title and differ from every name shown
C26_Witness ==
    /\ PlanRenamed
    /\ H.a.preview_box.title # <<>>
    /\ ClickTitle # <<>>
    /\ ClickTitle # H.a.preview_box.title
    /\ \A i \in DOMAIN H.log :
          /\ H.log[i].renamed
          /\ basename(H.log[i].dst) # Shown[i][2]
          /\ Exists(fs, H.log[i].dst)

====
